---- MODULE Spec2Model ----
(***************************************************************************)
(* Model of andesite.py's web socket session, AndesiteWebSocketBase        *)
(* (src/andesite/web_socket_client.py).                                    *)
(*                                                                         *)
(* The session runs on one asyncio event loop.  A step of the model is the *)
(* code a task runs between two suspension points (await try_connect,      *)
(* await sleep, await web_socket_client.send / recv / close, waiting for   *)
(* the connect lock).  The processes are the caller tasks, which call      *)
(* connect, send, disconnect and close, and the read loop task.            *)
(*                                                                         *)
(* The transport (the websockets library) is modelled by its contract:     *)
(*   - a handle is open until the peer drops it or close() is called on    *)
(*     it, and never reopens; send and recv on a handle that is not open   *)
(*     raise ConnectionClosed;                                             *)
(*   - a write suspended in send takes effect when the task resumes;       *)
(*   - a task suspended on a handle may be resumed after a later handle    *)
(*     has been stored: it then still fails on its own (old) handle.       *)
(***************************************************************************)
EXTENDS Integers, Sequences, FiniteSets, TLC

(***************************************************************************)
(* Bounds of the model.                                                    *)
(***************************************************************************)
\* the finite max_connect_attempts of a session of the concurrent specification Spec,
\* whose callers call connect() without max_attempts
MaxAttemptsArg == 1
\* in Spec a handshake may fail only while attempt < AttemptCap (caps a call without a maximum)
AttemptCap == 2
\* the largest maximum of attempts tried by the sequential specification SpecConnect
SeqMaxAttempts == 3
\* in SpecConnect a handshake may fail only while attempt < SeqAttemptCap
SeqAttemptCap == 6
\* number of send() calls in a behaviour of Spec
MaxMsgs == 1
\* number of send() calls in a behaviour of SpecSend
SendMaxMsgs == 2
\* number of distinct connection ids the node hands out
MaxConnId == 1
\* number of guild ids
MaxGuild == 2
\* a wait is started only while the listeners of its event are fewer than this
MaxListeners == 2

\* the client objects that can be added to the pool
MaxPoolClients == 2
\* number of calls made on the pool and on its clients in a behaviour
MaxPoolCalls == 6
\* the greatest score a region comparator returns
MaxRegionScore == 1
\* the client objects that can be added to the HTTP pool
MaxHttpClients == 3
\* number of calls made on the HTTP pool and on its clients in a behaviour
MaxHttpCalls == 7
\* the max_penalties and penalty_time_frame the HTTP pool is constructed with, and the
\* greatest value of the clock
MaxPenalties == 1
PenaltyTimeFrame == 1
MaxHttpTime == 2
\* the client objects and the number of calls in the behaviours with a request
MaxRequestClients == 2
MaxRequestCalls == 4
MaxTrack == 2
MaxHandled == 3

(***************************************************************************)
(* Values.                                                                 *)
(***************************************************************************)
\* Python's None, for Optional[int] and Optional[str] values
None == -1

\* the processes: the read loop task and the caller tasks
Reader == 0
Tasks == {1, 2}
Procs == Tasks \cup {Reader}
NoProc == -1

ConnIds == 1..MaxConnId
\* values of max_attempts and max_connect_attempts: Spec tries no maximum and
\* one finite maximum (0 is read as no maximum, see EffectiveMax), SpecConnect
\* tries every value up to SeqMaxAttempts
MaxArgs == {None, MaxAttemptsArg}
SeqMaxArgs == {None} \cup (0..SeqMaxAttempts)

\* frames the node sends: a connection-id update carrying an id, or another update
Frames == [op : {"connection-id"}, id : ConnIds] \cup {[op |-> "player-update", id |-> None]}

\* frames that are not a message of the protocol; op tells what the frame is: text
\* that is not JSON, JSON that is not an object, an object without the key op, an
\* object whose op is a string that no model has, an object whose op is a JSON array
\* or object, and an object whose model cannot be built from it
MalformedKinds == {"malformed-json", "not-object", "no-op", "unknown-op",
                   "unhashable-op", "bad-model"}
RawFrames == Frames \cup [op : MalformedKinds, id : {None}]

VARIABLES
    web_socket_client,     \* "none" (None), "open", "closed" (a handle that is not open)
    closed,                \* _closed
    last_connection_id,    \* _last_connection_id, None or an id
    headers,               \* _headers["Andesite-Resume-Id"], None when the key is absent
    max_connect_attempts,  \* instance default, None or a number
    message_queue,         \* _message_queue
    lock_holder,           \* _connect_lock: the process that holds it, or NoProc
    lock_waiters,          \* _connect_lock: the waiting processes, first to wake first
    cancel_requested,      \* _read_loop.cancel() was called and the task has not run since
    pc,                    \* where each process is suspended
    op,                    \* the call a process runs: "connect", "send" ("send_requeued" once
                           \* its write has raised ConnectionClosed), "disconnect", "close"
    arg,                   \* the max_attempts argument of the connect() a process runs
    attempt,               \* _connect's local attempt
    timeout,               \* _connect's local timeout, the delay last slept
    msg,                   \* send's local data, the message a task sends
    replay_index,          \* position of _replay_message_queue's iterator
    replay_mutated,        \* the deque changed since the iterator was made
    made,                  \* try_connect calls the current connect() has made
    wire,                  \* the messages written to the transport so far
    next_msg,              \* number of the next message submitted to send()
    emit,                  \* events dispatched by the latest step, in order
    returned               \* the call that returned or raised in the latest step

\* the state of the session (AndesiteWebSocketBase)
sessionVars == <<web_socket_client, closed, last_connection_id, headers, max_connect_attempts,
                 message_queue, lock_holder, lock_waiters, cancel_requested, pc, op, arg,
                 attempt, timeout, msg, replay_index, replay_mutated, made,
                 wire, next_msg, emit, returned>>

\* the state of the event target and of the tasks that wait on it
\* (EventTarget, AndesiteWebSocketInterface)
VARIABLES
    one_time_listeners,    \* _one_time_listeners: event name -> list of listeners (future, condition)
    future,                \* the future of the wait a task is in: pending, result, exception
    wpc,                   \* where a waiting task is: "idle", "send" (in ping's send), "wait"
    wcall,                 \* the call a waiting task runs: its kind and whether it has a timeout
    request_sent,          \* the request of a task's ping is on the transport
    replied,               \* the node's reply to a task's ping has been dispatched
    dispatched,            \* the event dispatched by the latest step
    wreturned              \* the wait or helper call that ended in the latest step

targetVars == <<one_time_listeners, future, wpc, wcall, request_sent, replied,
                dispatched, wreturned>>

\* the state of the web socket pool, of its member clients and of the tasks
\* that call it (WebSocketPoolBase)
VARIABLES
    clients,               \* _clients: the member clients of the pool
    guild_clients,         \* _guild_clients: guild id -> client (a key is absent until assigned)
    client_guilds,         \* _client_guilds: client -> set of guild ids
    client_closed,         \* the closed property of each client object
    ppc,                   \* where a pool task is: "idle", "children", "scoring", "scored",
                           \*   "sending", "loading"
    pcall,                 \* the pool call a task runs: its operation, guild id and client
    assigning,             \* the assign_client calls a task runs or has created: guild id -> call
    preturned,             \* the call of a pool task that ended in the latest step
    pool_calls,            \* the number of calls made on the pool and its clients so far
    pool_state,            \* the state property of the pool: None or a state object
    client_state,          \* the state property of each client object
    children               \* the clients whose event target has the pool's as a child

stateVars == <<pool_state, client_state, children>>

poolVars == <<clients, guild_clients, client_guilds, client_closed, ppc, pcall, assigning,
              preturned, pool_calls, stateVars>>

\* the two candidates handed to the scoring function and the scores it returned
VARIABLES
    score_data,            \* the ScoringData of two candidates, << >> before the evaluation
    score_result           \* the scores of the two candidates

scoreVars == <<score_data, score_result>>

\* the state of the HTTP pool (HTTPPoolBase), of its clients and of the task that
\* calls request
VARIABLES
    http_clients,          \* _clients: the deque of member clients, leftmost first
    http_penalties,        \* _penalties: client -> list of timestamps (a key is absent
                           \*   until the client is penalised)
    http_closed,           \* the closed property of each client object
    http_now,              \* time.monotonic()
    http_req,              \* the running request call: where it is, its variable client
                           \*   and its set running_fs
    http_returned,         \* the call on the HTTP pool that ended in the latest step
    http_calls,            \* the number of calls made so far
    http_rotation,         \* the clients get_next_client returned since the membership
                           \*   last changed, oldest first
    http_added,            \* the client add_client added, until the next call or change
    http_last,             \* the client get_next_client returned last, while a member
    http_penalised         \* the number of penalties the running request gave each client

httpVars == <<http_clients, http_penalties, http_closed, http_now, http_req, http_returned,
              http_calls, http_rotation, http_added, http_last, http_penalised>>

\* the in-memory state (AndesiteState) and the events it was given
VARIABLES
    player_states,         \* player_states: guild id -> player state (a key is absent
                           \*   until the state is created)
    handled                \* the events and updates the state handled, oldest first

trackVars == <<player_states, handled>>

extraVars == <<scoreVars, httpVars, trackVars>>

vars == <<sessionVars, targetVars, poolVars, extraVars>>

\* no call ended in the latest step
NoReturn == [proc |-> NoProc, op |-> "none", res |-> "none", reported |-> 0, made |-> 0]

(***************************************************************************)
(* The state as one record, so that the code of a handler, which runs      *)
(* through several methods before it suspends, is a composition of         *)
(* functions from state to state.                                          *)
(***************************************************************************)
Cur ==
    [web_socket_client |-> web_socket_client, closed |-> closed,
     last_connection_id |-> last_connection_id, headers |-> headers,
     max_connect_attempts |-> max_connect_attempts, message_queue |-> message_queue,
     lock_holder |-> lock_holder, lock_waiters |-> lock_waiters,
     cancel_requested |-> cancel_requested, pc |-> pc, op |-> op, arg |-> arg,
     attempt |-> attempt, timeout |-> timeout, msg |-> msg,
     replay_index |-> replay_index, replay_mutated |-> replay_mutated,
     made |-> made, wire |-> wire, next_msg |-> next_msg,
     emit |-> <<>>, returned |-> NoReturn]

Becomes(s) ==
    /\ web_socket_client' = s.web_socket_client
    /\ closed' = s.closed
    /\ last_connection_id' = s.last_connection_id
    /\ headers' = s.headers
    /\ max_connect_attempts' = s.max_connect_attempts
    /\ message_queue' = s.message_queue
    /\ lock_holder' = s.lock_holder
    /\ lock_waiters' = s.lock_waiters
    /\ cancel_requested' = s.cancel_requested
    /\ pc' = s.pc
    /\ op' = s.op
    /\ arg' = s.arg
    /\ attempt' = s.attempt
    /\ timeout' = s.timeout
    /\ msg' = s.msg
    /\ replay_index' = s.replay_index
    /\ replay_mutated' = s.replay_mutated
    /\ made' = s.made
    /\ wire' = s.wire
    /\ next_msg' = s.next_msg
    /\ emit' = s.emit
    /\ returned' = s.returned
    /\ UNCHANGED <<targetVars, poolVars, extraVars>>

(***************************************************************************)
(* Helpers of the session.                                                 *)
(***************************************************************************)
\* the connected property: web_socket_client and web_socket_client.open
connected(s) == s.web_socket_client = "open"

\* event_target.dispatch(event)
dispatch(s, event) == [s EXCEPT !.emit = Append(@, event)]

\* the read loop task exists and is not done
ReadLoopRunning(s) == s.pc[Reader] \notin {"none", "done", "failed"}

\* int(math.pow(attempt, 1.5)): the largest d with d*d <= attempt^3
RECURSIVE IntSqrtFrom(_, _)
IntSqrtFrom(n, d) == IF (d + 1) * (d + 1) > n THEN d ELSE IntSqrtFrom(n, d + 1)

Backoff_Linear(k) == k + (k \div 2)

Backoff(k) == IntSqrtFrom(k * k * k, 0)

\* max_attempts or self.max_connect_attempts
EffectiveMax(max_attempts, default) ==
    IF max_attempts = None \/ max_attempts = 0 THEN default ELSE max_attempts

\* the condition of _connect's while loop
LoopContinues(max_attempts, k) == max_attempts = None \/ k <= max_attempts

\* the Andesite-Resume-Id header _connect injects, or deletes
ResumeHeader_NotInjected(old, id) == old

ResumeHeader(old, id) == IF id # None THEN id ELSE None

\* the end of the call process p runs, with its outcome and, for a
\* ConnectionError, the attempt count of its message: a caller task is idle
\* again; the read loop, which runs connect() in its except branch, loops on
\* after a success and dies with the exception otherwise
Raise(s, p, outcome, count) ==
    LET s1 == [s EXCEPT !.attempt[p] = 0, !.timeout[p] = 0, !.arg[p] = None,
                        !.made[p] = 0, !.op[p] = "none", !.msg[p] = 0,
                        !.returned = [proc |-> p, op |-> s.op[p], res |-> outcome,
                                      reported |-> count, made |-> s.made[p]]]
    IN  IF p = Reader
        THEN [s1 EXCEPT !.pc[p] = IF outcome = "ok" THEN "recv" ELSE "failed"]
        ELSE [s1 EXCEPT !.pc[p] = "idle"]

Finish(s, p, outcome) == Raise(s, p, outcome, 0)

\* _connect_lock.release(), at the exit of the async with block
Release(s) == [s EXCEPT !.lock_holder = NoProc]

\* _start_read_loop
StartReadLoop_Never(s) == s

StartReadLoop(s) ==
    IF ReadLoopRunning(s)
    THEN s
    ELSE [s EXCEPT !.pc[Reader] = "recv", !.cancel_requested = FALSE]

\* _stop_read_loop: cancel() on a task that is done changes nothing
StopReadLoop_Never(s) == s

StopReadLoop(s) ==
    IF s.pc[Reader] \in {"none", "done", "failed"}
    THEN s
    ELSE [s EXCEPT !.cancel_requested = TRUE]

\* a new handle is stored: the tasks suspended on the previous handle stay on it
OnOldHandle(s) ==
    [s EXCEPT !.pc = [q \in Procs |->
        IF @[q] = "write" THEN "write_old"
        ELSE IF @[q] = "recv" THEN "recv_old"
        ELSE @[q]]]

\* _replay_message_queue, up to its first await
ReplayStart(s, p) ==
    IF s.message_queue = <<>>
    THEN Finish(Release(s), p, "ok")
    ELSE [s EXCEPT !.pc[p] = "replay", !.replay_index = 1, !.replay_mutated = FALSE]

\* the while loop of _connect at its condition: the next try_connect, or the else branch
ConnectLoop(s, p) ==
    IF LoopContinues(EffectiveMax(s.arg[p], s.max_connect_attempts), s.attempt[p])
    THEN [s EXCEPT !.pc[p] = "try", !.made[p] = @ + 1]
    ELSE Raise(Release([s EXCEPT !.closed = TRUE]), p, "ConnectionError", s.attempt[p])

\* _connect, up to its first await
ConnectInternal(s, p) ==
    IF connected(s)
    THEN Finish(Release(s), p, "AlreadyConnected")
    ELSE ConnectLoop([s EXCEPT !.headers = ResumeHeader(@, s.last_connection_id),
                               !.attempt[p] = 1, !.made[p] = 0], p)

\* the body of connect's async with block
ConnectLocked_NoCheck(s, p) == ConnectInternal(s, p)

ConnectLocked(s, p) ==
    IF ~connected(s) THEN ConnectInternal(s, p) ELSE Finish(Release(s), p, "ok")

\* connect, up to its first await
connect_Unlocked(s, p) ==
    IF s.closed THEN Finish(s, p, "ClientClosed") ELSE ConnectLocked(s, p)

connect(s, p) ==
    IF s.closed
    THEN Finish(s, p, "ClientClosed")
    ELSE IF s.lock_holder = NoProc /\ s.lock_waiters = <<>>
         THEN ConnectLocked([s EXCEPT !.lock_holder = p], p)
         ELSE [s EXCEPT !.lock_waiters = Append(@, p), !.pc[p] = "lock"]

\* the end of send: the message joins the queue and connect() is awaited
Requeue_Raise(s, p) == Finish(s, p, "ConnectionClosed")

Requeue(s, p) ==
    connect([s EXCEPT !.message_queue = Append(@, s.msg[p]),
                      !.replay_mutated = \E q \in Procs : s.pc[q] = "replay",
                      !.msg[p] = 0,
                      !.arg[p] = None], p)

\* message_queue.clear(), in the finally of _replay_message_queue
ClearQueue(s) ==
    [s EXCEPT !.message_queue = <<>>, !.replay_index = 0, !.replay_mutated = FALSE]

\* a caller task starts an operation
Begin(s, t, name) == [s EXCEPT !.op[t] = name]

\* the caller task that starts the next operation: idle tasks hold no state,
\* so it is the first of them
NextCaller(t) == pc[t] = "idle" /\ \A u \in Tasks : u < t => pc[u] # "idle"

\* disconnect after its await, then what close adds to it
AfterDisconnect_Closes(s, t) == Finish([s EXCEPT !.closed = TRUE], t, "ok")

AfterDisconnect(s, t) ==
    Finish([s EXCEPT !.closed = IF s.op[t] = "close" THEN TRUE ELSE @], t, "ok")

(***************************************************************************)
(* The event target: events, one-time listeners and their conditions.      *)
(***************************************************************************)
Guilds == 1..MaxGuild
Ops == {"player-update", "stats"}
\* the client an event carries: this session, or another one of the same event target
Clients == {"self", "other"}

\* MsgReceiveEvent(client, op, data), data being an update of a guild, and
\* RawMsgReceiveEvent(client, body), body being a pong (ping = true) or not
MsgReceiveEvents ==
    [name : {"msg_receive"}, client : Clients, op : Ops, guild : Guilds, ping : {FALSE}]
RawMsgReceiveEvents ==
    [name : {"raw_msg_receive"}, client : {"self"}, op : {"raw"}, guild : Guilds, ping : BOOLEAN]
NoEvent == [name |-> "none", client |-> "self", op |-> "none", guild |-> None, ping |-> FALSE]
EventNames == {"msg_receive", "raw_msg_receive"}

\* Event._keys: the names passed to the constructor of the event
EventKeys(event) ==
    IF event.name = "msg_receive" THEN {"client", "op", "data"} ELSE {"client", "body"}

\* Event.get(key): for a key of the event it calls getattr(self, key, default=default),
\* which raises TypeError (getattr takes no keyword arguments); else it returns the default
EventGetRaises(event, key) == key \in EventKeys(event)
EventGet(event, key) == None

\* the condition of a listener applied to an event: "true", "false" or "raise".
\* _check of wait_for_update, and check_ping_response of ping
Condition(l, event) ==
    IF l.kind = "ping"
    THEN IF event.ping THEN "true" ELSE "false"
    ELSE IF event.client # "self" THEN "false"
    ELSE IF event.op # l.op THEN "false"
    ELSE IF l.guild_id # None /\ EventGetRaises(event, "guild_id") THEN "raise"
    ELSE IF l.guild_id # None /\ l.guild_id # EventGet(event, "guild_id") THEN "false"
    ELSE "true"

NoFuture == [state |-> "none", event |-> NoEvent]
NoCall == [kind |-> "none", timeout |-> FALSE]
NoWaitReturn == [proc |-> NoProc, kind |-> "none", res |-> "none", event |-> NoEvent]

TargetInit ==
    /\ one_time_listeners = [n \in EventNames |-> <<>>]
    /\ future = [w \in Tasks |-> NoFuture]
    /\ wpc = [w \in Tasks |-> "idle"]
    /\ wcall = [w \in Tasks |-> NoCall]
    /\ request_sent = [w \in Tasks |-> FALSE]
    /\ replied = [w \in Tasks |-> FALSE]
    /\ dispatched = NoEvent
    /\ wreturned = NoWaitReturn

(***************************************************************************)
(* The web socket pool, WebSocketPoolBase (src/andesite/pools.py).         *)
(*                                                                         *)
(* The pool keeps a set of member clients and two mappings, guild id ->    *)
(* client and client -> guild ids.  add_client, remove_client, get_client  *)
(* and get_guild_ids are synchronous and are one step each.  assign_client *)
(* suspends once, in find_best_client, while the scoring tasks run: its    *)
(* steps are the code up to the snapshot of the members, the scoring, and  *)
(* the code from the choice of the best client on.  pull_client creates    *)
(* one assign_client task per guild of the pulled client; the tasks are    *)
(* scheduled together and take each of their steps one after the other.    *)
(*                                                                         *)
(* The member clients have no connected attribute and the pool has no      *)
(* region comparator (its default), so a score is (1, 0, -guilds) or, for  *)
(* a closed client, (-1, 0, 0).  The forwarding of the clients' events to  *)
(* the pool and the player state are not part of the model.                *)
(***************************************************************************)
PoolClients == 1..MaxPoolClients

\* the state object of a pool that keeps player state, and the state object a client
\* was given by its owner
StateObject == 1
OwnStateObject == 2

\* dict[k] = v and del dict[k] on a mapping with the keys DOMAIN f
Put(f, k, v) == [x \in DOMAIN f \cup {k} |-> IF x = k THEN v ELSE f[x]]
Del(f, k) == [x \in DOMAIN f \ {k} |-> f[x]]

\* an assign_client call: "created" (task not started), "scoring" (snapshot taken),
\* "scored" (scores computed), "done" (returned client, or raised)
NewCall == [phase |-> "created", client |-> None, raised |-> "none", snap |-> <<>>, scores |-> <<>>]
DoneCall(c, e) == [phase |-> "done", client |-> c, raised |-> e, snap |-> <<>>, scores |-> <<>>]

NoPoolCall == [op |-> "none", guild |-> None, client |-> None]
NoPoolReturn == [proc |-> NoProc, op |-> "none", guild |-> None, client |-> None,
                 res |-> "none", value |-> None]

\* the pool as one record; raised is the exception of the running call, result its value,
\* calls the assign_client calls of the running task, call the one that just began
PoolCur ==
    [clients |-> clients, guild_clients |-> guild_clients, client_guilds |-> client_guilds,
     client_state |-> client_state, children |-> children,
     raised |-> "none", result |-> None, calls |-> <<>>, call |-> NewCall]

PoolBecomes(s) ==
    /\ clients' = s.clients
    /\ guild_clients' = s.guild_clients
    /\ client_guilds' = s.client_guilds
    /\ client_state' = s.client_state
    /\ children' = s.children
    /\ pool_state' = pool_state

PoolRaise(s, e) == [s EXCEPT !.raised = e]

\* add_client: ValueError for a member; else the client joins with an empty guild set
\* and its event target gets the pool's as a child; then, on a pool with a state,
\* ValueError for a client with another state, else the client takes the pool's state
add_client(s, c) ==
    IF c \in s.clients THEN PoolRaise(s, "ValueError")
    ELSE LET s1 == [s EXCEPT !.clients = @ \cup {c}, !.client_guilds = Put(@, c, {}),
                             !.children = @ \cup {c}] IN
         IF pool_state = None THEN s1
         ELSE IF s1.client_state[c] # None /\ s1.client_state[c] # pool_state
         THEN PoolRaise(s1, "ValueError")
         ELSE [s1 EXCEPT !.client_state[c] = pool_state]

\* the loop of remove_client over the popped guild ids: del _guild_clients[guild_id]
RECURSIVE DelGuildClients(_, _, _)
DelGuildClients(s, guild_ids, g) ==
    IF g > MaxGuild THEN s
    ELSE IF g \notin guild_ids THEN DelGuildClients(s, guild_ids, g + 1)
    ELSE IF g \notin DOMAIN s.guild_clients THEN PoolRaise(s, "KeyError")
    ELSE DelGuildClients([s EXCEPT !.guild_clients = Del(@, g)], guild_ids, g + 1)

remove_client(s, c) ==
    IF c \notin s.clients THEN PoolRaise(s, "ValueError")
    ELSE LET s1 == [s EXCEPT !.clients = @ \ {c}] IN
         IF c \notin DOMAIN s1.client_guilds THEN PoolRaise(s1, "KeyError")
         ELSE LET s2 == DelGuildClients([s1 EXCEPT !.client_guilds = Del(@, c)],
                                        s1.client_guilds[c], 1) IN
              IF s2.raised # "none" THEN s2
              ELSE [s2 EXCEPT !.client_state[c] = IF @ = pool_state THEN None ELSE @,
                              !.children = @ \ {c}]

\* load_player_state of pull_client: the attribute get of a pool without a state
load_player_state == IF pool_state = None THEN "AttributeError" ELSE "ok"

\* _check_client: a closed client is removed from the pool and None is returned
check_client(s, c) ==
    IF client_closed[c] THEN [remove_client(s, c) EXCEPT !.result = None]
    ELSE [s EXCEPT !.result = c]

get_client(s, g) ==
    IF g \notin DOMAIN s.guild_clients THEN [s EXCEPT !.result = None]
    ELSE check_client(s, s.guild_clients[g])

get_guild_ids(s, c) == IF c \in DOMAIN s.client_guilds THEN s.client_guilds[c] ELSE {}

\* iter_client_guild_ids as find_best_client reads it: each member with the size of
\* the copy of its guild set
Snapshot(s) == [c \in s.clients |-> Cardinality(get_guild_ids(s, c))]

\* default_scoring_function on a ScoringData: closed is client.closed, connected is
\* client.connected ("absent" when the client has no such attribute), has_comparator
\* is whether the pool has a region comparator, region is what the comparator returns
\* for the guild and the node region, guilds is len(guild_ids)
ScoringFunction_LoadFirst(data) ==
    IF data.closed THEN <<-1, 0, 0>>
    ELSE <<IF data.connected = "no" THEN 0 ELSE 1,
           0 - data.guilds,
           IF data.has_comparator THEN data.region ELSE 0>>

ScoringFunction(data) ==
    IF data.closed THEN <<-1, 0, 0>>
    ELSE <<IF data.connected = "no" THEN 0 ELSE 1,
           IF data.has_comparator THEN data.region ELSE 0,
           0 - data.guilds>>

\* the score of member c of the pool with n guilds: the members have no connected
\* attribute and the pool has no region comparator
default_scoring_function(c, n) ==
    ScoringFunction([closed |-> client_closed[c], connected |-> "absent",
                     has_comparator |-> FALSE, region |-> 0, guilds |-> n])

\* the ScoringData the scoring function is evaluated on
ScoringDatas(cmp) ==
    [closed : BOOLEAN, connected : {"absent", "yes", "no"}, has_comparator : {cmp},
     region : 0..MaxRegionScore, guilds : 0..MaxGuild]

(***************************************************************************)
(* The HTTP pool: the code of HTTPPoolBase on the pool as one record.       *)
(***************************************************************************)
HttpClients == 1..MaxHttpClients

Range(q) == {q[i] : i \in DOMAIN q}

\* deque.remove(c) on a deque that holds c once
Without(q, c) == SelectSeq(q, LAMBDA x : x # c)

\* deque.rotate(1): the rightmost client becomes the leftmost
Rotate_Left(q) == IF q = <<>> THEN q ELSE Tail(q) \o <<Head(q)>>

Rotate(q) == IF q = <<>> THEN q ELSE <<q[Len(q)]>> \o SubSeq(q, 1, Len(q) - 1)

\* the pool as one record; raised is the exception of the running call, result its value
HttpCur ==
    [clients |-> http_clients, penalties |-> http_penalties, raised |-> "none",
     result |-> None]

\* HTTPPoolBase.add_client: ValueError for a member, else the client is appended
http_add_client(s, c) ==
    IF c \in Range(s.clients) THEN [s EXCEPT !.raised = "ValueError"]
    ELSE [s EXCEPT !.clients = Append(@, c)]

\* HTTPPoolBase.remove_client: ValueError from deque.remove for a non-member, else the
\* client leaves the deque and its penalties are deleted
http_remove_client(s, c) ==
    IF c \notin Range(s.clients) THEN [s EXCEPT !.raised = "ValueError"]
    ELSE [s EXCEPT !.clients = Without(@, c),
                   !.penalties = IF c \in DOMAIN @ THEN Del(@, c) ELSE @]

get_current_client(s) == IF s.clients = <<>> THEN None ELSE s.clients[1]

\* the rotation without _check_client: the current client is returned as it is
get_next_client_Unchecked(s) ==
    LET s1 == [s EXCEPT !.clients = Rotate(@)]
    IN  [s1 EXCEPT !.result = get_current_client(s1)]

\* get_next_client: rotate, and remove the current client while it is closed
RECURSIVE get_next_client(_)
get_next_client(s) ==
    LET s1 == [s EXCEPT !.clients = Rotate(@)]
        client == get_current_client(s1)
    IN  IF client = None THEN [s1 EXCEPT !.result = None]
        ELSE IF http_closed[client] THEN get_next_client(http_remove_client(s1, client))
        ELSE [s1 EXCEPT !.result = client]

\* the index the for loop of _add_penalty leaves in i: that of the first timestamp
\* that has not expired, else that of the last timestamp, 0 for an empty list
ExpiredIndex(penalties, min_ts) ==
    IF penalties = <<>> THEN 0
    ELSE IF \E k \in DOMAIN penalties : penalties[k] >= min_ts
    THEN (CHOOSE k \in DOMAIN penalties :
              /\ penalties[k] >= min_ts
              /\ \A j \in 1..(k - 1) : penalties[j] < min_ts) - 1
    ELSE Len(penalties) - 1

\* _add_penalty(client) at the time new_ts
add_penalty(s, c, new_ts) ==
    LET penalties == IF c \in DOMAIN s.penalties THEN s.penalties[c] ELSE <<>>
        i == ExpiredIndex(penalties, new_ts - PenaltyTimeFrame)
        kept == Append(SubSeq(penalties, i + 1, Len(penalties)), new_ts)
        s1 == [s EXCEPT !.penalties = Put(@, c, kept)]
    IN  IF Len(kept) > MaxPenalties THEN http_remove_client(s1, c) ELSE s1

\* a request a client runs for the pool: a member of running_fs
NewFuture(fs, c) == [id |-> Cardinality(fs) + 1, client |-> c, state |-> "pending"]

\* the client request penalises when the future done_fs.pop() returned raised an
\* error that is no HTTPError: the client of its local variable
PenalisedClient(req, f) == req.client

HttpInit ==
    /\ http_clients = <<>>
    /\ http_penalties = <<>>
    /\ http_closed = [c \in HttpClients |-> FALSE]
    /\ http_now = 0
    /\ http_req = [pc |-> "idle", client |-> None, running_fs |-> {}]
    /\ http_returned = [op |-> "none", client |-> None, res |-> "none", value |-> None]
    /\ http_calls = 0
    /\ http_rotation = <<>>
    /\ http_added = None
    /\ http_last = None
    /\ http_penalised = [c \in HttpClients |-> 0]

(***************************************************************************)
(* The in-memory state: the code of AndesiteState on player_states.        *)
(***************************************************************************)
Tracks == 1..MaxTrack

TrackStopTypes == {"TrackEndEvent", "TrackExceptionEvent", "TrackStuckEvent"}

\* the Andesite events of a guild: those about a track carry it (the handler reads
\* the track of TrackStartEvent only, so the others carry one and the same track),
\* the others have no such field
AndesiteEvents ==
    [type : {"TrackStartEvent"}, guild_id : Guilds, track : Tracks]
        \cup [type : TrackStopTypes, guild_id : Guilds, track : {1}]
        \cup [type : {"WebSocketClosedEvent", "UnknownAndesiteEvent"},
              guild_id : Guilds, track : {None}]

\* the player updates of a guild

PlayerUpdates == [type : {"PlayerUpdate"}, guild_id : Guilds, track : {None}]

\* PlayerState(guild_id)
PlayerState == [player |-> None, track |-> None]

\* _get_or_create_player_state: the state of the guild, created when the key is absent
get_or_create_player_state(ps, guild_id) ==
    IF guild_id \in DOMAIN ps THEN ps ELSE Put(ps, guild_id, PlayerState)

\* handle_player_update: set_player on the state of the guild
handle_player_update(ps, update) ==
    LET ps1 == get_or_create_player_state(ps, update.guild_id)
    IN  [ps1 EXCEPT ![update.guild_id].player = "player"]

\* a handler that takes TrackStuckEvent for an event it has nothing to do with
handle_andesite_event_StuckIgnored(ps, event) ==
    IF event.type \in {"TrackEndEvent", "TrackExceptionEvent"}
    THEN [get_or_create_player_state(ps, event.guild_id)
              EXCEPT ![event.guild_id].track = None]
    ELSE IF event.type = "TrackStartEvent"
    THEN [get_or_create_player_state(ps, event.guild_id)
              EXCEPT ![event.guild_id].track = event.track]
    ELSE ps

\* handle_andesite_event: set_track(None) for an event that stops the track,
\* set_track(event.track) for TrackStartEvent, nothing for another event
handle_andesite_event(ps, event) ==
    IF event.type \in TrackStopTypes
    THEN [get_or_create_player_state(ps, event.guild_id)
              EXCEPT ![event.guild_id].track = None]
    ELSE IF event.type = "TrackStartEvent"
    THEN [get_or_create_player_state(ps, event.guild_id)
              EXCEPT ![event.guild_id].track = event.track]
    ELSE ps

TrackInit ==
    /\ player_states = <<>>
    /\ handled = <<>>

ScoreInit ==
    /\ score_data = <<>>
    /\ score_result = <<>>

\* the order of Python tuples
ScoreLess(a, b) ==
    \/ a[1] < b[1]
    \/ a[1] = b[1] /\ a[2] < b[2]
    \/ a[1] = b[1] /\ a[2] = b[2] /\ a[3] < b[3]

BestClients_Any(scores) == DOMAIN scores

\* best_clients after the loop of find_best_client over the scores
BestClients(scores) ==
    {c \in DOMAIN scores : \A d \in DOMAIN scores : ~ScoreLess(scores[c], scores[d])}

\* _assign_client; a weak value dictionary cannot hold None: storing it raises TypeError
AssignInternal(s, c, g) ==
    IF c = None THEN PoolRaise(s, "TypeError")
    ELSE [s EXCEPT !.guild_clients = Put(@, g, c),
                   !.client_guilds = Put(@, c, get_guild_ids(s, c) \cup {g})]

\* assign_client up to its suspension in find_best_client.  With no member there is
\* nothing to wait for: find_best_client returns None at once.
AssignBegin(s, g) ==
    LET s1 == get_client([s EXCEPT !.raised = "none"], g) IN
    IF s1.raised # "none" THEN [s1 EXCEPT !.raised = "none", !.call = DoneCall(None, s1.raised)]
    ELSE IF s1.result # None THEN [s1 EXCEPT !.call = DoneCall(s1.result, "none")]
    ELSE IF s1.clients = {}
    THEN [s1 EXCEPT !.call = DoneCall(None, AssignInternal(s1, None, g).raised)]
    ELSE [s1 EXCEPT !.call = [NewCall EXCEPT !.phase = "scoring", !.snap = Snapshot(s1)]]

\* the first step of each created assign_client task, in the order of their creation
RECURSIVE StartCalls(_, _)
StartCalls(s, g) ==
    IF g > MaxGuild THEN s
    ELSE IF g \notin DOMAIN s.calls \/ s.calls[g].phase # "created" THEN StartCalls(s, g + 1)
    ELSE LET s1 == AssignBegin(s, g) IN
         StartCalls([s1 EXCEPT !.calls = Put(@, g, s1.call)], g + 1)

\* the scoring tasks of a call: the scoring function on each member of the snapshot
ScoreCall(call) ==
    IF call.phase # "scoring" THEN call
    ELSE [call EXCEPT !.phase = "scored", !.snap = <<>>,
                      !.scores = [c \in DOMAIN call.snap |->
                                      default_scoring_function(c, call.snap[c])]]

\* assign_client from the return of find_best_client on, for each scored call
RECURSIVE ResumeCalls(_, _, _)
ResumeCalls(s, choice, g) ==
    IF g > MaxGuild THEN s
    ELSE IF g \notin DOMAIN s.calls \/ s.calls[g].phase # "scored"
    THEN ResumeCalls(s, choice, g + 1)
    ELSE LET s1 == AssignInternal([s EXCEPT !.raised = "none"], choice[g], g) IN
         ResumeCalls([s1 EXCEPT !.raised = "none",
                                !.calls = Put(@, g, DoneCall(IF s1.raised = "none"
                                                             THEN choice[g] ELSE None,
                                                             s1.raised))],
                     choice, g + 1)

\* random.choice(best_clients) for each scored call
Choices(calls) ==
    {ch \in [DOMAIN calls -> PoolClients \cup {None}] :
        \A g \in DOMAIN calls :
            IF calls[g].phase = "scored"
            THEN IF BestClients(calls[g].scores) = {} THEN ch[g] = None
                 ELSE ch[g] \in BestClients(calls[g].scores)
            ELSE ch[g] = calls[g].client}

\* the exception asyncio.gather hands to its caller: that of the first call that raised
FirstRaised(calls) ==
    IF \E g \in DOMAIN calls : calls[g].raised # "none"
    THEN calls[CHOOSE g \in DOMAIN calls :
                   /\ calls[g].raised # "none"
                   /\ \A h \in DOMAIN calls : calls[h].raised # "none" => g <= h].raised
    ELSE "none"

\* the pool after __init__(cs, state=...): state is what the state property returns,
\* states the state each client object had when it was created
PoolConstructedWith(cs, state, states) ==
    /\ clients = cs
    /\ guild_clients = <<>>
    /\ client_guilds = [c \in cs |-> {}]
    /\ client_closed = [c \in PoolClients |-> FALSE]
    /\ ppc = [p \in Tasks |-> "idle"]
    /\ pcall = [p \in Tasks |-> NoPoolCall]
    /\ assigning = [p \in Tasks |-> <<>>]
    /\ preturned = NoPoolReturn
    /\ pool_calls = 0
    /\ pool_state = state
    /\ client_state = states
    /\ children = cs

\* a pool that keeps player state, of clients created with state=False
PoolConstructed(cs) == PoolConstructedWith(cs, StateObject, [c \in PoolClients |-> None])

(***************************************************************************)
(* Initial state: the session after __init__.                              *)
(***************************************************************************)
SessionConstructed ==
    /\ web_socket_client = "none"
    /\ closed = FALSE
    /\ last_connection_id = None
    /\ headers = None
    /\ max_connect_attempts \in MaxArgs
    /\ message_queue = <<>>
    /\ lock_holder = NoProc
    /\ lock_waiters = <<>>
    /\ cancel_requested = FALSE
    /\ pc = [p \in Procs |-> IF p = Reader THEN "none" ELSE "idle"]
    /\ op = [p \in Procs |-> "none"]
    /\ arg = [p \in Procs |-> None]
    /\ attempt = [p \in Procs |-> 0]
    /\ timeout = [p \in Procs |-> 0]
    /\ msg = [p \in Procs |-> 0]
    /\ replay_index = 0
    /\ replay_mutated = FALSE
    /\ made = [p \in Procs |-> 0]
    /\ wire = {}
    /\ next_msg = 1
    /\ emit = <<>>
    /\ returned = NoReturn

Init ==
    /\ SessionConstructed
    /\ TargetInit
    /\ PoolConstructed({})
    /\ ScoreInit
    /\ HttpInit
    /\ TrackInit

(***************************************************************************)
(* Actions of the caller tasks.                                            *)
(***************************************************************************)
\* a task calls connect(max_attempts=m)
Connect(t, m) ==
    /\ NextCaller(t)
    /\ Becomes(connect([Begin(Cur, t, "connect") EXCEPT !.arg[t] = m], t))

\* a process waiting for the connect lock is woken and enters the async with block
LockAcquired(p) ==
    /\ pc[p] = "lock"
    /\ lock_holder = NoProc
    /\ lock_waiters # <<>>
    /\ Head(lock_waiters) = p
    /\ ~(p = Reader /\ cancel_requested)
    /\ Becomes(ConnectLocked([Cur EXCEPT !.lock_holder = p,
                                         !.lock_waiters = Tail(@)], p))

\* try_connect returns None: the handshake failed; _connect goes to sleep
HandshakeFailsBelow(p, cap) ==
    /\ pc[p] = "try"
    /\ attempt[p] < cap
    /\ ~(p = Reader /\ cancel_requested)
    /\ Becomes([Cur EXCEPT !.timeout[p] = Backoff(attempt[p]), !.pc[p] = "sleep"])

HandshakeFails(p) == HandshakeFailsBelow(p, AttemptCap)

\* try_connect raises what it does not catch (an OSError of the network):
\* the error leaves _connect and connect, and the lock is released
HandshakeRaises(p) ==
    /\ pc[p] = "try"
    /\ ~(p = Reader /\ cancel_requested)
    /\ Becomes(Finish(Release(Cur), p, "OSError"))

\* asyncio.sleep(timeout) returns: the next round of _connect's loop
SleepDone(p) ==
    /\ pc[p] = "sleep"
    /\ ~(p = Reader /\ cancel_requested)
    /\ Becomes(ConnectLoop([Cur EXCEPT !.attempt[p] = @ + 1], p))

\* try_connect returns a client: the rest of _connect up to the first queued write
HandshakeSucceeds(p) ==
    /\ pc[p] = "try"
    /\ ~(p = Reader /\ cancel_requested)
    /\ Becomes(ReplayStart(
           dispatch(StartReadLoop([OnOldHandle(Cur) EXCEPT !.web_socket_client = "open"]),
                    "ws_connect"), p))

\* one round of _replay_message_queue's loop: the awaited write returns or raises
ReplayWrite(p) ==
    /\ pc[p] = "replay"
    /\ ~(p = Reader /\ cancel_requested)
    /\ IF connected(Cur)
       THEN LET s1 == [Cur EXCEPT !.wire = @ \cup {message_queue[replay_index]}]
            IN  IF replay_mutated
                THEN Becomes(Finish(Release(ClearQueue(s1)), p, "RuntimeError"))
                ELSE IF replay_index < Len(message_queue)
                THEN Becomes([s1 EXCEPT !.replay_index = @ + 1])
                ELSE Becomes(Finish(Release(ClearQueue(s1)), p, "ok"))
       ELSE Becomes(Finish(Release(ClearQueue(Cur)), p, "ConnectionClosed"))

\* a task calls send: the code up to the write
SendBelow(t, cap) ==
    /\ NextCaller(t)
    /\ next_msg <= cap
    /\ LET s1 == dispatch([Begin(Cur, t, "send") EXCEPT !.msg[t] = next_msg,
                                                       !.next_msg = @ + 1],
                          "raw_msg_send")
       IN  IF web_socket_client # "none"
           THEN Becomes([s1 EXCEPT !.pc[t] = "write"])
           ELSE Becomes(Requeue(s1, t))

Send(t) == SendBelow(t, MaxMsgs)

\* the write of send returns, or raises ConnectionClosed
SendWrite(t) ==
    /\ pc[t] \in {"write", "write_old"}
    /\ IF pc[t] = "write" /\ connected(Cur)
       THEN Becomes(Finish([Cur EXCEPT !.wire = @ \cup {msg[t]}], t, "ok"))
       ELSE Becomes(Requeue([Cur EXCEPT !.op[t] = "send_requeued"], t))

\* a task calls disconnect, or close, which begins with disconnect
Disconnect(t, name) ==
    /\ NextCaller(t)
    /\ LET s1 == StopReadLoop(Begin(Cur, t, name))
       IN  IF connected(s1)
           THEN Becomes([s1 EXCEPT !.web_socket_client = "closed", !.pc[t] = "closing"])
           ELSE Becomes(AfterDisconnect(s1, t))

\* web_socket_client.close() returns
DisconnectDone(t) ==
    /\ pc[t] = "closing"
    /\ Becomes(AfterDisconnect(dispatch(Cur, "ws_disconnect_deliberate"), t))

(***************************************************************************)
(* Actions of the read loop task and of the node.                          *)
(***************************************************************************)
\* get_update_model(op, event_type): the model of a known op, None for a string that
\* is no key of OP_MAP, TypeError from OP_MAP.get for an op that cannot be hashed
get_update_model(f) ==
    IF f.op = "unknown-op" THEN "None"
    ELSE IF f.op = "unhashable-op" THEN "TypeError"
    ELSE "model"

\* the typed event dispatched ahead of the raw event of the same frame
web_socket_reader_TypedFirst(s, f) ==
    IF f \in Frames
    THEN dispatch(dispatch(s, "msg_receive"), "raw_msg_receive")
    ELSE s

\* one round of _web_socket_reader on the frame recv returned
web_socket_reader(s, f) ==
    IF f.op \in {"malformed-json", "not-object"} THEN s
    ELSE LET s1 == dispatch(s, "raw_msg_receive") IN
         IF f.op = "no-op" THEN s1
         ELSE IF get_update_model(f) = "None" THEN s1
         ELSE IF get_update_model(f) = "TypeError" THEN Raise(s1, Reader, "TypeError", 0)
         ELSE IF f.op = "bad-model" THEN s1
         ELSE LET s2 == dispatch(s1, "msg_receive") IN
              IF f.op = "connection-id"
              THEN [s2 EXCEPT !.last_connection_id = f.id]
              ELSE dispatch(s2, "player_update")

\* recv returns a frame: one round of _web_socket_reader
ReaderReceives(f) ==
    /\ pc[Reader] = "recv"
    /\ connected(Cur)
    /\ ~cancel_requested
    /\ Becomes(web_socket_reader(Cur, f))

\* recv raises ConnectionClosed: the read loop reconnects
ReaderConnectionClosed ==
    /\ \/ pc[Reader] = "recv" /\ ~connected(Cur)
       \/ pc[Reader] = "recv_old"
    /\ ~cancel_requested
    /\ Becomes(connect(dispatch([Cur EXCEPT !.op[Reader] = "connect"],
                                 "ws_disconnect_unexpected"), Reader))

\* the cancellation handled as if recv had raised ConnectionClosed
ReaderCancelled_AsError(written) ==
    /\ cancel_requested
    /\ ReadLoopRunning(Cur)
    /\ ~written
    /\ Becomes(connect(dispatch([Cur EXCEPT !.cancel_requested = FALSE,
                                             !.op[Reader] = "connect"],
                                 "ws_disconnect_unexpected"), Reader))

\* the cancelled read loop runs: CancelledError is raised where it is suspended
ReaderCancelled(written) ==
    /\ cancel_requested
    /\ ReadLoopRunning(Cur)
    /\ written => (pc[Reader] = "replay" /\ connected(Cur))
    /\ LET s0 == [Cur EXCEPT !.cancel_requested = FALSE, !.pc[Reader] = "done",
                             !.attempt[Reader] = 0, !.timeout[Reader] = 0,
                             !.made[Reader] = 0, !.op[Reader] = "none"]
       IN  CASE pc[Reader] \in {"recv", "recv_old"} -> Becomes(s0)
             [] pc[Reader] = "lock" ->
                   Becomes([s0 EXCEPT !.lock_waiters =
                                SelectSeq(@, LAMBDA q : q # Reader)])
             [] pc[Reader] \in {"try", "sleep"} -> Becomes(Release(s0))
             [] pc[Reader] = "replay" ->
                   Becomes(Release(ClearQueue(
                       IF written
                       THEN [s0 EXCEPT !.wire = @ \cup {message_queue[replay_index]}]
                       ELSE s0)))

\* the node, or the network, drops the connection
ConnectionDrops ==
    /\ web_socket_client = "open"
    /\ Becomes([Cur EXCEPT !.web_socket_client = "closed"])

Next ==
    \/ \E t \in Tasks : Connect(t, None)
    \/ \E p \in Procs : LockAcquired(p)
    \/ \E p \in Procs : HandshakeFails(p)
    \/ \E p \in Procs : HandshakeRaises(p)
    \/ \E p \in Procs : SleepDone(p)
    \/ \E p \in Procs : HandshakeSucceeds(p)
    \/ \E p \in Procs : ReplayWrite(p)
    \/ \E t \in Tasks : Send(t)
    \/ \E t \in Tasks : SendWrite(t)
    \/ \E t \in Tasks, name \in {"disconnect", "close"} : Disconnect(t, name)
    \/ \E t \in Tasks : DisconnectDone(t)
    \/ \E f \in Frames : ReaderReceives(f)
    \/ ReaderConnectionClosed
    \/ \E written \in BOOLEAN : ReaderCancelled(written)
    \/ ConnectionDrops

Spec == Init /\ [][Next]_vars

(***************************************************************************)
(* The session with no maximum of attempts under fair scheduling: the      *)
(* event loop runs every task that can run, and a node that is asked for a *)
(* handshake again and again accepts one in the end.                       *)
(***************************************************************************)
InitLive ==
    /\ Init
    /\ max_connect_attempts = None

\* the steps a suspended task takes when the event loop resumes it
Resumed(p) ==
    \/ LockAcquired(p)
    \/ SleepDone(p)
    \/ ReplayWrite(p)
    \/ HandshakeFails(p) \/ HandshakeSucceeds(p)
    \/ p \in Tasks /\ SendWrite(p)
    \/ p = Reader /\ ReaderConnectionClosed

Fairness ==
    \A p \in Procs :
        /\ WF_vars(Resumed(p))
        /\ SF_vars(HandshakeSucceeds(p))

\* tasks call connect() and send(), nobody disconnects or closes; the node refuses
\* handshakes, accepts them, sends frames and drops the connection
NextLive ==
    \/ \E t \in Tasks : Connect(t, None)
    \/ \E p \in Procs : LockAcquired(p)
    \/ \E p \in Procs : HandshakeFails(p)
    \/ \E p \in Procs : SleepDone(p)
    \/ \E p \in Procs : HandshakeSucceeds(p)
    \/ \E p \in Procs : ReplayWrite(p)
    \/ \E t \in Tasks : Send(t)
    \/ \E t \in Tasks : SendWrite(t)
    \/ \E f \in Frames : ReaderReceives(f)
    \/ ReaderConnectionClosed
    \/ ConnectionDrops

SpecLive == InitLive /\ [][NextLive]_vars /\ Fairness

(***************************************************************************)
(* The receiving specification: the same session and the same steps, with  *)
(* a node that also sends frames that are not messages of the protocol.    *)
(***************************************************************************)
NextRead ==
    \/ \E t \in Tasks : Connect(t, None)
    \/ \E p \in Procs : LockAcquired(p)
    \/ \E p \in Procs : HandshakeFails(p)
    \/ \E p \in Procs : HandshakeRaises(p)
    \/ \E p \in Procs : SleepDone(p)
    \/ \E p \in Procs : HandshakeSucceeds(p)
    \/ \E p \in Procs : ReplayWrite(p)
    \/ \E t \in Tasks : Send(t)
    \/ \E t \in Tasks : SendWrite(t)
    \/ \E t \in Tasks, name \in {"disconnect", "close"} : Disconnect(t, name)
    \/ \E t \in Tasks : DisconnectDone(t)
    \/ \E f \in RawFrames : ReaderReceives(f)
    \/ ReaderConnectionClosed
    \/ \E written \in BOOLEAN : ReaderCancelled(written)
    \/ ConnectionDrops

SpecRead == Init /\ [][NextRead]_vars

(***************************************************************************)
(* The sending specification: the same session and the same steps, with    *)
(* SendMaxMsgs calls of send, so that a message can be submitted while     *)
(* another one is queued or being replayed.                                *)
(***************************************************************************)
NextSend ==
    \/ \E t \in Tasks : Connect(t, None)
    \/ \E p \in Procs : LockAcquired(p)
    \/ \E p \in Procs : HandshakeFails(p)
    \/ \E p \in Procs : HandshakeRaises(p)
    \/ \E p \in Procs : SleepDone(p)
    \/ \E p \in Procs : HandshakeSucceeds(p)
    \/ \E p \in Procs : ReplayWrite(p)
    \/ \E t \in Tasks : SendBelow(t, SendMaxMsgs)
    \/ \E t \in Tasks : SendWrite(t)
    \/ \E t \in Tasks, name \in {"disconnect", "close"} : Disconnect(t, name)
    \/ \E t \in Tasks : DisconnectDone(t)
    \/ \E f \in Frames : ReaderReceives(f)
    \/ ReaderConnectionClosed
    \/ \E written \in BOOLEAN : ReaderCancelled(written)
    \/ ConnectionDrops

SpecSend == Init /\ [][NextSend]_vars

(***************************************************************************)
(* The sequential specification: one caller task that only calls connect,  *)
(* with every maximum of attempts up to SeqMaxAttempts at both levels, the *)
(* node and the read loop.                                                 *)
(***************************************************************************)
InitConnect ==
    /\ web_socket_client = "none"
    /\ closed = FALSE
    /\ last_connection_id = None
    /\ headers = None
    /\ max_connect_attempts \in SeqMaxArgs
    /\ message_queue = <<>>
    /\ lock_holder = NoProc
    /\ lock_waiters = <<>>
    /\ cancel_requested = FALSE
    /\ pc = [p \in Procs |-> IF p = Reader THEN "none" ELSE "idle"]
    /\ op = [p \in Procs |-> "none"]
    /\ arg = [p \in Procs |-> None]
    /\ attempt = [p \in Procs |-> 0]
    /\ timeout = [p \in Procs |-> 0]
    /\ msg = [p \in Procs |-> 0]
    /\ replay_index = 0
    /\ replay_mutated = FALSE
    /\ made = [p \in Procs |-> 0]
    /\ wire = {}
    /\ next_msg = 1
    /\ emit = <<>>
    /\ returned = NoReturn
    /\ TargetInit
    /\ PoolConstructed({})
    /\ ScoreInit
    /\ HttpInit
    /\ TrackInit

NextConnect ==
    \/ \E m \in SeqMaxArgs : Connect(1, m)
    \/ \E p \in Procs : LockAcquired(p)
    \/ \E p \in Procs : HandshakeFailsBelow(p, SeqAttemptCap)
    \/ \E p \in Procs : HandshakeRaises(p)
    \/ \E p \in Procs : SleepDone(p)
    \/ \E p \in Procs : HandshakeSucceeds(p)
    \/ ReaderConnectionClosed
    \/ ConnectionDrops

SpecConnect == InitConnect /\ [][NextConnect]_vars

(***************************************************************************)
(* The waiting specification: tasks that call wait_for_update and ping on  *)
(* one event target while the read loop dispatches the events of received  *)
(* messages.  The session's own state stays as constructed.                *)
(***************************************************************************)
\* EventTarget.dispatch(event), the part of the one-time listeners: a listener whose
\* future is cancelled is dropped, one whose condition accepts the event gets the
\* event as its result, one whose condition raises gets the exception
DispatchEvent(event) ==
    LET ls == one_time_listeners[event.name]
        Hit(w, c) == \E i \in DOMAIN ls :
                        ls[i].owner = w /\ ~ls[i].cancelled /\ Condition(ls[i], event) = c
    IN  /\ one_time_listeners' = [one_time_listeners EXCEPT ![event.name] =
               SelectSeq(ls, LAMBDA l : ~l.cancelled /\ Condition(l, event) = "false")]
        /\ future' = [w \in Tasks |->
               IF Hit(w, "true") THEN [state |-> "result", event |-> event]
               ELSE IF Hit(w, "raise") THEN [state |-> "exception", event |-> NoEvent]
               ELSE future[w]]
        /\ dispatched' = event

\* EventTarget.wait_for: a new future and its listener, appended to the event's list
WaitFor(w, name, listener) ==
    /\ one_time_listeners' = [one_time_listeners EXCEPT ![name] = Append(@, listener)]
    /\ future' = [future EXCEPT ![w] = [state |-> "pending", event |-> NoEvent]]
    /\ wpc' = [wpc EXCEPT ![w] = "wait"]

\* a task calls wait_for_update(o, guild_id=g, timeout=...)
WaitForUpdate(w, o, g, tmo) ==
    /\ wpc[w] = "idle"
    /\ Len(one_time_listeners["msg_receive"]) < MaxListeners
    /\ WaitFor(w, "msg_receive",
               [owner |-> w, kind |-> "update", op |-> o, guild_id |-> g, cancelled |-> FALSE])
    /\ wcall' = [wcall EXCEPT ![w] = [kind |-> "update", timeout |-> tmo]]
    /\ dispatched' = NoEvent
    /\ wreturned' = NoWaitReturn
    /\ UNCHANGED <<request_sent, replied, sessionVars, poolVars, extraVars>>

\* a task calls ping: the code up to the suspension of its send
Ping(w) ==
    /\ wpc[w] = "idle"
    /\ wpc' = [wpc EXCEPT ![w] = "send"]
    /\ wcall' = [wcall EXCEPT ![w] = [kind |-> "ping", timeout |-> FALSE]]
    /\ dispatched' = NoEvent
    /\ wreturned' = NoWaitReturn
    /\ UNCHANGED <<one_time_listeners, future, request_sent, replied, sessionVars, poolVars, extraVars>>

\* the request of a ping whose send awaits connect() is written to the transport
\* by the replay of the queue, before that connect() returns
RequestWritten(w) ==
    /\ wpc[w] = "send"
    /\ ~request_sent[w]
    /\ request_sent' = [request_sent EXCEPT ![w] = TRUE]
    /\ dispatched' = NoEvent
    /\ wreturned' = NoWaitReturn
    /\ UNCHANGED <<one_time_listeners, future, wpc, wcall, replied, sessionVars, poolVars, extraVars>>

\* the send of a ping returns (having written the request itself, if the replay
\* did not), and ping calls wait_for
PingSendReturns(w) ==
    /\ wpc[w] = "send"
    /\ request_sent' = [request_sent EXCEPT ![w] = TRUE]
    /\ WaitFor(w, "raw_msg_receive",
               [owner |-> w, kind |-> "ping", op |-> "raw", guild_id |-> None,
                cancelled |-> FALSE])
    /\ dispatched' = NoEvent
    /\ wreturned' = NoWaitReturn
    /\ UNCHANGED <<wcall, replied, sessionVars, poolVars, extraVars>>

\* the node answers a ping whose request it has received: the read loop
\* dispatches the RawMsgReceiveEvent of the pong
DispatchReply(w, g) ==
    /\ wcall[w].kind = "ping"
    /\ request_sent[w]
    /\ ~replied[w]
    /\ DispatchEvent([name |-> "raw_msg_receive", client |-> "self", op |-> "raw",
                      guild |-> g, ping |-> TRUE])
    /\ replied' = [replied EXCEPT ![w] = TRUE]
    /\ wreturned' = NoWaitReturn
    /\ UNCHANGED <<wpc, wcall, request_sent, sessionVars, poolVars, extraVars>>

\* the read loop dispatches the event of another received message
Dispatch(event) ==
    /\ DispatchEvent(event)
    /\ wreturned' = NoWaitReturn
    /\ UNCHANGED <<wpc, wcall, request_sent, replied, sessionVars, poolVars, extraVars>>

\* the end of a wait or of a ping
WaitEnds(w, outcome) ==
    /\ wreturned' = [proc |-> w, kind |-> wcall[w].kind, res |-> outcome,
                     event |-> future[w].event]
    /\ wpc' = [wpc EXCEPT ![w] = "idle"]
    /\ wcall' = [wcall EXCEPT ![w] = NoCall]
    /\ future' = [future EXCEPT ![w] = NoFuture]
    /\ request_sent' = [request_sent EXCEPT ![w] = FALSE]
    /\ replied' = [replied EXCEPT ![w] = FALSE]
    /\ dispatched' = NoEvent
    /\ UNCHANGED <<sessionVars, poolVars, extraVars>>

\* the future of a waiting task is done: asyncio.wait_for returns its result,
\* or raises its exception
WaitReturns(w) ==
    /\ wpc[w] = "wait"
    /\ future[w].state \in {"result", "exception"}
    /\ WaitEnds(w, IF future[w].state = "result" THEN "value" ELSE "TypeError")
    /\ UNCHANGED one_time_listeners

\* the timeout of a wait elapses first: asyncio.wait_for cancels the future,
\* whose listener stays in the list, and raises TimeoutError
WaitTimesOut(w) ==
    /\ wpc[w] = "wait"
    /\ wcall[w].timeout
    /\ future[w].state = "pending"
    /\ WaitEnds(w, "TimeoutError")
    /\ one_time_listeners' = [n \in EventNames |->
           [i \in DOMAIN one_time_listeners[n] |->
               IF one_time_listeners[n][i].owner = w
               THEN [one_time_listeners[n][i] EXCEPT !.cancelled = TRUE]
               ELSE one_time_listeners[n][i]]]

InitWait == Init /\ max_connect_attempts = None

NextWait ==
    \/ \E w \in Tasks, o \in Ops, g \in Guilds \cup {None}, tmo \in BOOLEAN :
           WaitForUpdate(w, o, g, tmo)
    \/ \E w \in Tasks : Ping(w)
    \/ \E w \in Tasks : RequestWritten(w)
    \/ \E w \in Tasks : PingSendReturns(w)
    \/ \E w \in Tasks, g \in Guilds : DispatchReply(w, g)
    \/ \E event \in MsgReceiveEvents : Dispatch(event)
    \/ \E g \in Guilds :
           Dispatch([name |-> "raw_msg_receive", client |-> "self", op |-> "raw",
                     guild |-> g, ping |-> FALSE])
    \/ \E w \in Tasks : WaitReturns(w)
    \/ \E w \in Tasks : WaitTimesOut(w)

SpecWait == InitWait /\ [][NextWait]_vars

(***************************************************************************)
(* The pool specification: tasks that call assign_client, send and         *)
(* pull_client on one pool while clients are added, removed, looked up and *)
(* closed.  The session and the event target stay as constructed.          *)
(***************************************************************************)
PoolReturn(p, o, g, c, res, value) ==
    preturned' = [proc |-> p, op |-> o, guild |-> g, client |-> c, res |-> res, value |-> value]

PoolIdle(p) ==
    /\ ppc' = [ppc EXCEPT ![p] = "idle"]
    /\ pcall' = [pcall EXCEPT ![p] = NoPoolCall]
    /\ assigning' = [assigning EXCEPT ![p] = <<>>]

\* one more call is made, while the behaviour may make one
CallMade ==
    /\ pool_calls < MaxPoolCalls
    /\ pool_calls' = pool_calls + 1

\* pool.add_client(c)
AddClient(c) ==
    LET s == add_client(PoolCur, c) IN
    /\ CallMade
    /\ PoolBecomes(s)
    /\ preturned' = NoPoolReturn
    /\ UNCHANGED <<client_closed, ppc, pcall, assigning, sessionVars, targetVars, extraVars>>

\* pool.remove_client(c)
RemoveClient(c) ==
    LET s == remove_client(PoolCur, c) IN
    /\ CallMade
    /\ PoolBecomes(s)
    /\ preturned' = NoPoolReturn
    /\ UNCHANGED <<client_closed, ppc, pcall, assigning, sessionVars, targetVars, extraVars>>

\* pool.get_client(g)
GetClient(g) ==
    LET s == get_client(PoolCur, g) IN
    /\ CallMade
    /\ PoolBecomes(s)
    /\ PoolReturn(NoProc, "get_client", g,
                  IF g \in DOMAIN guild_clients THEN guild_clients[g] ELSE None,
                  IF s.raised = "none" THEN "ok" ELSE s.raised, s.result)
    /\ UNCHANGED <<client_closed, ppc, pcall, assigning, sessionVars, targetVars, extraVars>>

\* the tasks are interchangeable: a call is started by the first task that is free
NextPoolCaller(p) == ppc[p] = "idle" /\ \A q \in Tasks : q < p => ppc[q] # "idle"

\* what a call of assign_client or send does once its assign_client has returned or raised
AfterAssign(p, o, g, call) ==
    IF call.raised # "none"
    THEN PoolIdle(p) /\ PoolReturn(p, o, g, None, call.raised, None)
    ELSE IF o = "assign_client"
    THEN PoolIdle(p) /\ PoolReturn(p, o, g, None, "ok", call.client)
    ELSE IF call.client = None
    THEN PoolIdle(p) /\ PoolReturn(p, o, g, None, "PoolEmptyError", None)
    ELSE /\ ppc' = [ppc EXCEPT ![p] = "sending"]
         /\ pcall' = [pcall EXCEPT ![p] = [op |-> o, guild |-> g, client |-> call.client]]
         /\ assigning' = [assigning EXCEPT ![p] = <<>>]
         /\ preturned' = NoPoolReturn

\* task p calls pool.assign_client(g) (o = "assign_client") or pool.send(g, ...) (o = "send")
PoolCall(p, o, g) ==
    /\ NextPoolCaller(p)
    /\ CallMade
    /\ LET s == AssignBegin(PoolCur, g) IN
       /\ PoolBecomes(s)
       /\ IF s.call.phase = "done"
          THEN AfterAssign(p, o, g, s.call)
          ELSE /\ ppc' = [ppc EXCEPT ![p] = "scoring"]
               /\ pcall' = [pcall EXCEPT ![p] = [op |-> o, guild |-> g, client |-> None]]
               /\ assigning' = [assigning EXCEPT ![p] = g :> s.call]
               /\ preturned' = NoPoolReturn
    /\ UNCHANGED <<client_closed, sessionVars, targetVars, extraVars>>

\* task p calls pool.pull_client(c): up to the gather of the assign_client tasks
PullClient(p, c) ==
    /\ NextPoolCaller(p)
    /\ CallMade
    /\ LET guild_ids == get_guild_ids(PoolCur, c)
           s == remove_client(PoolCur, c) IN
       /\ PoolBecomes(s)
       /\ IF s.raised # "none"
          THEN PoolIdle(p) /\ PoolReturn(p, "pull_client", None, c, s.raised, None)
          ELSE IF guild_ids = {}
          THEN PoolIdle(p) /\ PoolReturn(p, "pull_client", None, c, "ok", None)
          ELSE /\ ppc' = [ppc EXCEPT ![p] = "children"]
               /\ pcall' = [pcall EXCEPT ![p] = [op |-> "pull_client", guild |-> None,
                                                 client |-> c]]
               /\ assigning' = [assigning EXCEPT ![p] = [g \in guild_ids |-> NewCall]]
               /\ preturned' = NoPoolReturn
    /\ UNCHANGED <<client_closed, sessionVars, targetVars, extraVars>>

\* the assign_client tasks of a pull_client take their first step
ChildrenStart(p) ==
    /\ ppc[p] = "children"
    /\ LET s == StartCalls([PoolCur EXCEPT !.calls = assigning[p]], 1) IN
       /\ PoolBecomes(s)
       /\ assigning' = [assigning EXCEPT ![p] = s.calls]
       /\ ppc' = [ppc EXCEPT ![p] = "scoring"]
    /\ preturned' = NoPoolReturn
    /\ UNCHANGED <<client_closed, pcall, pool_calls, sessionVars, targetVars, extraVars>>

\* the scoring tasks of the calls of task p run
Score(p) ==
    /\ ppc[p] = "scoring"
    /\ assigning' = [assigning EXCEPT ![p] = [g \in DOMAIN @ |-> ScoreCall(@[g])]]
    /\ ppc' = [ppc EXCEPT ![p] = "scored"]
    /\ preturned' = NoPoolReturn
    /\ UNCHANGED <<clients, guild_clients, client_guilds, client_closed, pcall,
                   pool_calls, stateVars, sessionVars, targetVars, extraVars>>

\* the calls of task p resume from find_best_client, assign and return; a pull_client
\* then raises what its gather raised, or goes on to load the player states
Resume(p) ==
    /\ ppc[p] = "scored"
    /\ \E choice \in Choices(assigning[p]) :
         LET s == ResumeCalls([PoolCur EXCEPT !.calls = assigning[p]], choice, 1) IN
         /\ PoolBecomes(s)
         /\ IF pcall[p].op = "pull_client"
            THEN IF FirstRaised(s.calls) # "none"
                 THEN /\ PoolIdle(p)
                      /\ PoolReturn(p, "pull_client", None, pcall[p].client,
                                    FirstRaised(s.calls), None)
                 ELSE /\ ppc' = [ppc EXCEPT ![p] = "loading"]
                      /\ assigning' = [assigning EXCEPT ![p] = s.calls]
                      /\ preturned' = NoPoolReturn
                      /\ UNCHANGED pcall
            ELSE AfterAssign(p, pcall[p].op, pcall[p].guild, s.calls[pcall[p].guild])
    /\ UNCHANGED <<client_closed, pool_calls, sessionVars, targetVars, extraVars>>

\* the send of the member client chosen by pool.send returns
ClientSendReturns(p) ==
    /\ ppc[p] = "sending"
    /\ PoolIdle(p)
    /\ PoolReturn(p, "send", pcall[p].guild, None, "ok", pcall[p].client)
    /\ UNCHANGED <<clients, guild_clients, client_guilds, client_closed, pool_calls,
                   stateVars, sessionVars, targetVars, extraVars>>

\* the load_player_state tasks of a pull_client run, each reading self.state.get, and
\* pull_client returns what their gather returned or raised
LoadReturns(p) ==
    /\ ppc[p] = "loading"
    /\ PoolIdle(p)
    /\ PoolReturn(p, "pull_client", None, pcall[p].client, load_player_state, None)
    /\ UNCHANGED <<clients, guild_clients, client_guilds, client_closed, pool_calls,
                   stateVars, sessionVars, targetVars, extraVars>>

\* a client is closed (its close(), by whoever holds it)
ClientCloses(c) ==
    /\ ~client_closed[c]
    /\ CallMade
    /\ client_closed' = [client_closed EXCEPT ![c] = TRUE]
    /\ preturned' = NoPoolReturn
    /\ UNCHANGED <<clients, guild_clients, client_guilds, ppc, pcall, assigning,
                   stateVars, sessionVars, targetVars, extraVars>>

\* the tasks that hold a reference to client c
Holders(c) ==
    {p \in Tasks :
        \/ pcall[p].client = c
        \/ \E g \in DOMAIN assigning[p] :
              \/ assigning[p][g].client = c
              \/ c \in DOMAIN assigning[p][g].snap
              \/ c \in DOMAIN assigning[p][g].scores}

\* a client object that is neither a member nor held by a task is garbage collected:
\* its entries leave the two weak dictionaries; the identifier then stands for a new object
Collected(c) ==
    /\ c \notin clients
    /\ Holders(c) = {}
    /\ \/ c \in DOMAIN client_guilds
       \/ \E g \in DOMAIN guild_clients : guild_clients[g] = c
       \/ client_closed[c]
    /\ guild_clients' = [g \in {h \in DOMAIN guild_clients : guild_clients[h] # c} |->
                            guild_clients[g]]
    /\ client_guilds' = Del(client_guilds, c)
    /\ client_closed' = [client_closed EXCEPT ![c] = FALSE]
    /\ preturned' = NoPoolReturn
    /\ UNCHANGED <<clients, ppc, pcall, assigning, pool_calls, stateVars, sessionVars,
                   targetVars, extraVars>>

InitPool ==
    /\ Init
    /\ max_connect_attempts = None

NextPool ==
    \/ \E c \in PoolClients : AddClient(c)
    \/ \E c \in PoolClients : RemoveClient(c)
    \/ \E g \in Guilds : GetClient(g)
    \/ \E p \in Tasks, g \in Guilds : PoolCall(p, "assign_client", g)
    \/ \E p \in Tasks, g \in Guilds : PoolCall(p, "send", g)
    \/ \E p \in Tasks, c \in PoolClients : PullClient(p, c)
    \/ \E p \in Tasks : ChildrenStart(p)
    \/ \E p \in Tasks : Score(p)
    \/ \E p \in Tasks : Resume(p)
    \/ \E p \in Tasks : ClientSendReturns(p)
    \/ \E p \in Tasks : LoadReturns(p)
    \/ \E c \in PoolClients : ClientCloses(c)
    \/ \E c \in PoolClients : Collected(c)

SpecPool == InitPool /\ [][NextPool]_vars

(***************************************************************************)
(* The sequential pool specification: a call on the pool or on a client is *)
(* made only when no call on the pool is running.                          *)
(***************************************************************************)
PoolQuiet == \A p \in Tasks : ppc[p] = "idle"

NextPoolSeq ==
    \/ PoolQuiet /\ \E c \in PoolClients : AddClient(c)
    \/ PoolQuiet /\ \E c \in PoolClients : RemoveClient(c)
    \/ PoolQuiet /\ \E g \in Guilds : GetClient(g)
    \/ PoolQuiet /\ \E p \in Tasks, g \in Guilds : PoolCall(p, "assign_client", g)
    \/ PoolQuiet /\ \E p \in Tasks, g \in Guilds : PoolCall(p, "send", g)
    \/ PoolQuiet /\ \E p \in Tasks, c \in PoolClients : PullClient(p, c)
    \/ PoolQuiet /\ \E c \in PoolClients : ClientCloses(c)
    \/ \E p \in Tasks : ChildrenStart(p)
    \/ \E p \in Tasks : Score(p)
    \/ \E p \in Tasks : Resume(p)
    \/ \E p \in Tasks : ClientSendReturns(p)
    \/ \E p \in Tasks : LoadReturns(p)
    \/ \E c \in PoolClients : Collected(c)

SpecPoolSeq == InitPool /\ [][NextPoolSeq]_vars

(***************************************************************************)
(* The pool with any state configuration: the pool keeps player state or   *)
(* not, and each client object starts without a state, with the pool's     *)
(* state object or with one of its own.  Calls run one at a time.          *)
(***************************************************************************)
ClientStates == {None, StateObject, OwnStateObject}

InitPoolState ==
    /\ SessionConstructed
    /\ max_connect_attempts = None
    /\ TargetInit
    /\ \E state \in {None, StateObject} : \E states \in [PoolClients -> ClientStates] :
          PoolConstructedWith({}, state, states)
    /\ ScoreInit
    /\ HttpInit
    /\ TrackInit

NextPoolState ==
    \/ PoolQuiet /\ \E c \in PoolClients : AddClient(c)
    \/ PoolQuiet /\ \E c \in PoolClients : RemoveClient(c)
    \/ PoolQuiet /\ \E p \in Tasks, g \in Guilds : PoolCall(p, "assign_client", g)
    \/ PoolQuiet /\ \E p \in Tasks, c \in PoolClients : PullClient(p, c)
    \/ \E p \in Tasks : ChildrenStart(p)
    \/ \E p \in Tasks : Score(p)
    \/ \E p \in Tasks : Resume(p)
    \/ \E p \in Tasks : LoadReturns(p)

SpecPoolState == InitPoolState /\ [][NextPoolState]_vars

(***************************************************************************)
(* The scoring specification: the default scoring function evaluated on    *)
(* the ScoringData of two candidates of one pool.                          *)
(***************************************************************************)
EvaluateScores(a, b) ==
    /\ score_data = <<>>
    /\ score_data' = <<a, b>>
    /\ score_result' = <<ScoringFunction(a), ScoringFunction(b)>>
    /\ UNCHANGED <<sessionVars, targetVars, poolVars, httpVars, trackVars>>

InitScore ==
    /\ Init
    /\ max_connect_attempts = None

NextScore == \E cmp \in BOOLEAN : \E a, b \in ScoringDatas(cmp) : EvaluateScores(a, b)

SpecScore == InitScore /\ [][NextScore]_vars

(***************************************************************************)
(* The HTTP pool specifications.  The session, the event target and the    *)
(* web socket pool stay as constructed.                                    *)
(***************************************************************************)
\* the step held no call of get_next_client
NoGet == -2

\* the last n clients of q
LastOf(q, n) == IF Len(q) <= n THEN q ELSE SubSeq(q, Len(q) - n + 1, Len(q))

\* the pool becomes s; ret is what get_next_client returned in the step (NoGet without
\* such a call), added the client add_client added (None otherwise)
HttpBecomes(s, ret, added) ==
    LET changed == Range(s.clients) # Range(http_clients)
        last == IF ret \in HttpClients THEN ret ELSE http_last
    IN  /\ http_clients' = s.clients
        /\ http_penalties' = s.penalties
        /\ http_rotation' = IF ret = NoGet THEN (IF changed THEN <<>> ELSE http_rotation)
                            ELSE IF ret = None THEN <<>>
                            ELSE IF changed THEN <<ret>>
                            ELSE LastOf(Append(http_rotation, ret), Len(s.clients))
        /\ http_last' = IF last \in Range(s.clients) THEN last ELSE None
        /\ http_added' = IF added # None THEN added
                         ELSE IF ret # NoGet THEN None
                         ELSE IF http_added \in Range(s.clients) THEN http_added
                         ELSE None

HttpReturn(o, c, res, value) ==
    http_returned' = [op |-> o, client |-> c, res |-> res, value |-> value]

HttpCallMade ==
    /\ http_calls < MaxHttpCalls
    /\ http_calls' = http_calls + 1

HttpOutcome(s) == IF s.raised = "none" THEN "ok" ELSE s.raised

\* pool.add_client(c)
HttpAddClient(c) ==
    LET s == http_add_client(HttpCur, c) IN
    /\ HttpCallMade
    /\ HttpBecomes(s, NoGet, IF s.raised = "none" THEN c ELSE None)
    /\ HttpReturn("add_client", c, HttpOutcome(s), None)
    /\ UNCHANGED <<http_closed, http_now, http_req, http_penalised,
                   sessionVars, targetVars, poolVars, scoreVars, trackVars>>

\* pool.remove_client(c)
HttpRemoveClient(c) ==
    LET s == http_remove_client(HttpCur, c) IN
    /\ HttpCallMade
    /\ HttpBecomes(s, NoGet, None)
    /\ HttpReturn("remove_client", c, HttpOutcome(s), None)
    /\ UNCHANGED <<http_closed, http_now, http_req, http_penalised,
                   sessionVars, targetVars, poolVars, scoreVars, trackVars>>

\* pool.get_next_client()
HttpGetNextClient ==
    LET s == get_next_client(HttpCur) IN
    /\ HttpCallMade
    /\ HttpBecomes(s, s.result, None)
    /\ HttpReturn("get_next_client", None, "ok", s.result)
    /\ UNCHANGED <<http_closed, http_now, http_req, http_penalised,
                   sessionVars, targetVars, poolVars, scoreVars, trackVars>>

\* pool.get_current_client()
HttpGetCurrentClient ==
    /\ HttpCallMade
    /\ HttpReturn("get_current_client", None, "ok", get_current_client(HttpCur))
    /\ UNCHANGED <<http_clients, http_penalties, http_closed, http_now, http_req,
                   http_rotation, http_added, http_last, http_penalised,
                   sessionVars, targetVars, poolVars, scoreVars, trackVars>>

\* an HTTP client is closed
HttpClientCloses(c) ==
    /\ ~http_closed[c]
    /\ HttpCallMade
    /\ http_closed' = [http_closed EXCEPT ![c] = TRUE]
    /\ HttpReturn("close", c, "ok", None)
    /\ UNCHANGED <<http_clients, http_penalties, http_now, http_req,
                   http_rotation, http_added, http_last, http_penalised,
                   sessionVars, targetVars, poolVars, scoreVars, trackVars>>

InitHttp ==
    /\ Init
    /\ max_connect_attempts = None

\* the rotation of the pool: clients are added, removed, closed and handed out
NextHttpRotate ==
    \/ \E c \in HttpClients : HttpAddClient(c)
    \/ \E c \in HttpClients : HttpRemoveClient(c)
    \/ HttpGetNextClient
    \/ HttpGetCurrentClient
    \/ \E c \in HttpClients : HttpClientCloses(c)

SpecHttpRotate == InitHttp /\ [][NextHttpRotate]_vars

\* request from the top of its while loop to the await of asyncio.wait, or to the
\* PoolEmptyError of a pool with no usable client; s0 is the pool as the step so far
\* left it and fs the set running_fs
RequestLoop(s0, fs) ==
    LET s == get_next_client(s0) IN
    /\ HttpBecomes(s, s.result, None)
    /\ IF s.result = None
       THEN /\ http_req' = [pc |-> "idle", client |-> None, running_fs |-> fs]
            /\ HttpReturn("request", None, "PoolEmptyError", None)
       ELSE /\ http_req' = [pc |-> "waiting", client |-> s.result,
                            running_fs |-> fs \cup {NewFuture(fs, s.result)}]
            /\ HttpReturn("none", None, "none", None)

\* a task calls pool.request(...)
HttpRequest ==
    /\ http_req.pc = "idle"
    /\ HttpCallMade
    /\ http_penalised' = [c \in HttpClients |-> 0]
    /\ RequestLoop(HttpCur, {})
    /\ UNCHANGED <<http_closed, http_now, sessionVars, targetVars, poolVars, scoreVars, trackVars>>

\* the request a client runs for the pool ends: it returns, raises HTTPError or raises
\* another error
HttpFutureCompletes(f, outcome) ==
    /\ http_req.pc = "waiting"
    /\ f \in http_req.running_fs
    /\ f.state = "pending"
    /\ http_req' = [http_req EXCEPT !.running_fs = (@ \ {f}) \cup {[f EXCEPT !.state = outcome]}]
    /\ HttpReturn("none", None, "none", None)
    /\ UNCHANGED <<http_clients, http_penalties, http_closed, http_now, http_calls,
                   http_rotation, http_added, http_last, http_penalised,
                   sessionVars, targetVars, poolVars, scoreVars, trackVars>>

\* asyncio.wait returns with f among the futures that are done and done_fs.pop()
\* returns f: request returns its result, raises its HTTPError, or penalises a client
\* and starts the next round of its loop
HttpWaitReturns(f) ==
    /\ http_req.pc = "waiting"
    /\ f \in http_req.running_fs
    /\ f.state # "pending"
    /\ IF f.state \in {"ok", "HTTPError"}
       THEN /\ http_req' = [http_req EXCEPT !.pc = "idle"]
            /\ HttpReturn("request", f.client, f.state, None)
            /\ UNCHANGED <<http_clients, http_penalties, http_rotation, http_added,
                           http_last, http_penalised>>
       ELSE LET c == PenalisedClient(http_req, f)
                s == add_penalty(HttpCur, c, http_now)
            IN  /\ http_penalised' = [http_penalised EXCEPT ![c] = @ + 1]
                /\ IF s.raised # "none"
                   THEN /\ HttpBecomes(s, NoGet, None)
                        /\ http_req' = [http_req EXCEPT !.pc = "idle"]
                        /\ HttpReturn("request", c, s.raised, None)
                   ELSE RequestLoop(s, http_req.running_fs)
    /\ UNCHANGED <<http_closed, http_now, http_calls,
                   sessionVars, targetVars, poolVars, scoreVars, trackVars>>

\* time passes
HttpTick ==
    /\ http_now < MaxHttpTime
    /\ http_now' = http_now + 1
    /\ HttpReturn("none", None, "none", None)
    /\ UNCHANGED <<http_clients, http_penalties, http_closed, http_req, http_calls,
                   http_rotation, http_added, http_last, http_penalised,
                   sessionVars, targetVars, poolVars, scoreVars, trackVars>>

\* the pool with a task that calls request while clients are added, removed and closed
NextHttp ==
    \/ http_calls < MaxRequestCalls /\ \E c \in 1..MaxRequestClients : HttpAddClient(c)
    \/ http_calls < MaxRequestCalls /\ \E c \in 1..MaxRequestClients : HttpRemoveClient(c)
    \/ http_calls < MaxRequestCalls /\ \E c \in 1..MaxRequestClients : HttpClientCloses(c)
    \/ http_calls < MaxRequestCalls /\ HttpRequest
    \/ \E f \in http_req.running_fs, outcome \in {"ok", "HTTPError", "error"} :
           HttpFutureCompletes(f, outcome)
    \/ \E f \in http_req.running_fs : HttpWaitReturns(f)
    \/ HttpTick

SpecHttp == InitHttp /\ [][NextHttp]_vars

(***************************************************************************)
(* The state specification: an AndesiteState that is given Andesite events *)
(* and player updates, one after the other.                                *)
(***************************************************************************)
\* state.handle_andesite_event(event) runs to its end
HandleAndesiteEvent(event) ==
    /\ Len(handled) < MaxHandled
    /\ player_states' = handle_andesite_event(player_states, event)
    /\ handled' = Append(handled, event)
    /\ UNCHANGED <<sessionVars, targetVars, poolVars, scoreVars, httpVars>>

\* state.handle_player_update(update) runs to its end
HandlePlayerUpdate(update) ==
    /\ Len(handled) < MaxHandled
    /\ player_states' = handle_player_update(player_states, update)
    /\ handled' = Append(handled, update)
    /\ UNCHANGED <<sessionVars, targetVars, poolVars, scoreVars, httpVars>>

NextState ==
    \/ \E event \in AndesiteEvents : HandleAndesiteEvent(event)
    \/ \E update \in PlayerUpdates : HandlePlayerUpdate(update)

SpecState == InitHttp /\ [][NextState]_vars

(***************************************************************************)
(* Properties of the session.                                              *)
(***************************************************************************)
\* a try_connect call starts in this step
HandshakeStarts == \E p \in Procs : made'[p] > made[p]

\* C1: once the closed flag is true it stays true, no connection attempt
\* (try_connect call) is started any more and the session does not become
\* connected again, whatever calls were under way when it became closed.
C1_ClosedIsTerminal ==
    [][closed => (closed' /\ web_socket_client' # "open" /\ ~HandshakeStarts)]_vars

\* C2: while the queue is replayed after a (re)connection, the messages
\* written to the transport are the queued ones, in the order of the queue:
\* no message of a later send() call is written before the queued ones.
C2_QueueBeforeNewSends ==
    [][(\E p \in Procs : pc[p] = "replay") =>
          \A w \in wire' \ wire : w = message_queue[replay_index]]_vars

\* the write of task t's send() raises ConnectionClosed in this step
WriteFails(t) ==
    /\ pc[t] \in {"write", "write_old"}
    /\ pc'[t] \notin {"write", "write_old"}
    /\ msg[t] \notin wire'

\* C3 as stated: a send() whose write failed because the connection is closed
\* never raises, whatever the outcome of the reconnection it triggers.
C3_SendNeverRaises == returned.op = "send_requeued" => returned.res = "ok"

\* C3 as amended: a send() whose write fails because the connection is closed
\* does not raise that failure; in the same step the message joins the queue
\* and connect() is entered, and send() ends there only with what connect()
\* returns or raises.
C3_WriteFailureRequeues ==
    [][\A t \in Tasks : WriteFails(t) =>
          /\ message_queue' = Append(message_queue, msg[t])
          /\ \/ pc'[t] \in {"lock", "try"}
             \/ /\ returned'.proc = t
                /\ returned'.res \in {"ok", "ClientClosed", "ConnectionError"}]_vars

C3_Witness == \E t \in Tasks : op[t] = "send_requeued" /\ pc[t] = "try"

\* C4: a connect() whose attempts (one or more) all failed leaves the session
\* closed and raises a ConnectionError whose attempt count is the number of
\* try_connect calls it made.
C4_ReportedAttempts ==
    (returned.res = "ConnectionError" /\ returned.made >= 1) =>
        (closed /\ returned.reported = returned.made)

\* C5: a connect() call with a maximum (its max_attempts argument when given,
\* 0 included, else the instance default) makes at most that many try_connect
\* calls.
C5_AttemptsWithinMaximum ==
    \A p \in Procs :
        LET maximum == IF arg[p] # None THEN arg[p] ELSE max_connect_attempts
        IN  (pc[p] \in {"try", "sleep"} /\ maximum # None) => made[p] <= maximum

\* C6: within one connect() call the k-th try_connect call has attempt = k,
\* starting at 1 in every call, and the delay slept after failed attempt k is
\* floor(k^1.5): 1, 2, 5, 8, 11 for k = 1..5.
DelayTable == <<1, 2, 5, 8, 11>>

C6_BackoffDelays ==
    \A p \in Procs :
        /\ pc[p] \in {"try", "sleep"} => (attempt[p] >= 1 /\ attempt[p] = made[p])
        /\ pc[p] = "sleep" =>
             /\ timeout[p] * timeout[p] <= attempt[p] * attempt[p] * attempt[p]
             /\ (timeout[p] + 1) * (timeout[p] + 1) > attempt[p] * attempt[p] * attempt[p]
             /\ attempt[p] <= Len(DelayTable) => timeout[p] = DelayTable[attempt[p]]

C6_Witness == \E p \in Procs : pc[p] = "sleep" /\ attempt[p] = 5 /\ timeout[p] = 11

ConnectCallOnOpen(t) ==
    /\ pc[t] = "idle"
    /\ web_socket_client = "open"
    /\ ~closed
    /\ op'[t] = "connect" \/ (returned'.proc = t /\ returned'.op = "connect")

\* task t's connect() obtains the connect lock in this step and finds the session open
LockAcquiredOnOpen(t) ==
    /\ pc[t] = "lock"
    /\ op[t] = "connect"
    /\ pc'[t] # "lock"
    /\ web_socket_client = "open"

\* what a connect() on an open session leaves alone
SessionUntouched ==
    /\ UNCHANGED <<web_socket_client, message_queue, wire, cancel_requested, closed>>
    /\ pc'[Reader] = pc[Reader]
    /\ ~HandshakeStarts
    /\ emit' = <<>>

\* C8 as stated: connect() on a session that has an open connection fails at
\* once with the "already connected" error and changes nothing.
C8_ConnectOnOpenRaises ==
    [][\A t \in Tasks : ConnectCallOnOpen(t) =>
          /\ returned'.proc = t
          /\ returned'.res = "AlreadyConnected"
          /\ SessionUntouched]_vars

\* C8 as amended: connect() on a session that is not closed and has an open
\* connection raises nothing: it waits for the connect lock when the lock is
\* taken, and when it has the lock and the connection is open it returns
\* without a handshake; connection, queue and read loop are unchanged.
C8_ConnectOnOpenIsNoOp ==
    [][\A t \in Tasks :
          /\ ConnectCallOnOpen(t) =>
                /\ pc'[t] = "lock" \/ (returned'.proc = t /\ returned'.res = "ok")
                /\ SessionUntouched
          /\ LockAcquiredOnOpen(t) =>
                /\ returned'.proc = t /\ returned'.res = "ok"
                /\ SessionUntouched]_vars

C8_Witness ==
    /\ returned.op = "connect"
    /\ returned.res = "ok"
    /\ returned.made = 0
    /\ web_socket_client = "open"

\* process p's try_connect returns a client in this step
ConnectSucceeds(p) ==
    pc[p] = "try" /\ web_socket_client # "open" /\ web_socket_client' = "open"

DisconnectCall(t) ==
    /\ pc[t] = "idle"
    /\ op'[t] = "disconnect" \/ (returned'.proc = t /\ returned'.op = "disconnect")

\* some caller task can call connect() and is not turned away
ConnectAccepted ==
    \E t \in Tasks :
        Connect(t, None) /\ (pc'[t] \in {"try", "lock"} \/ returned'.res = "ok")

\* C10: disconnect() on a session that is not connected dispatches no event
\* and returns; on a connected session it closes the connection and
\* dispatches ws_disconnect with deliberate = true once, when close() has
\* returned; it changes neither the closed flag nor the queue, and after it
\* connect() is accepted unless the session was closed.
C10_DisconnectSteps ==
    [][\A t \in Tasks :
          /\ DisconnectCall(t) =>
                /\ UNCHANGED <<closed, message_queue>>
                /\ emit' = <<>>
                /\ IF web_socket_client = "open"
                   THEN pc'[t] = "closing" /\ web_socket_client' = "closed"
                   ELSE /\ returned'.proc = t /\ returned'.res = "ok"
                        /\ web_socket_client' = web_socket_client
          /\ (pc[t] = "closing" /\ op[t] = "disconnect" /\ pc'[t] # "closing") =>
                /\ UNCHANGED <<closed, message_queue, web_socket_client>>
                /\ emit' = <<"ws_disconnect_deliberate">>
                /\ returned'.proc = t /\ returned'.res = "ok"]_vars
    /\ []((returned.op = "disconnect" /\ ~closed) => ENABLED ConnectAccepted)

C10_Witness ==
    /\ returned.op = "disconnect"
    /\ emit = <<"ws_disconnect_deliberate">>
    /\ ~closed

\* the read loop's recv raises ConnectionClosed in this step
ReaderObservesClose ==
    /\ pc[Reader] \in {"recv", "recv_old"}
    /\ pc'[Reader] \notin {"recv_old", "done"}
    /\ pc'[Reader] # pc[Reader] \/ returned'.proc = Reader

\* task t calls disconnect() or close() in this step
DeliberateDisconnect(t) ==
    /\ pc[t] = "idle"
    /\ \/ op'[t] \in {"disconnect", "close"}
       \/ returned'.proc = t /\ returned'.op \in {"disconnect", "close"}

\* C11: a read loop whose recv raises ConnectionClosed dispatches ws_disconnect
\* with deliberate = false once and enters connect(); when that connect()
\* returns, the read loop is back in recv on an open connection; disconnect()
\* leaves the read loop cancelled, and a cancelled read loop neither dispatches
\* that event nor reconnects.
C11_ReaderReconnects ==
    [][/\ ReaderObservesClose =>
             /\ emit' = <<"ws_disconnect_unexpected">>
             /\ \/ pc'[Reader] \in {"lock", "try"}
                \/ returned'.proc = Reader /\ returned'.op = "connect"
       /\ (returned'.proc = Reader /\ returned'.res = "ok") =>
             (pc'[Reader] = "recv" /\ web_socket_client' = "open")
       /\ (\E t \in Tasks : DeliberateDisconnect(t)) =>
             (pc'[Reader] \in {"none", "done", "failed"} \/ cancel_requested')
       /\ cancel_requested =>
             /\ ~ReaderObservesClose
             /\ \A i \in DOMAIN emit' : emit'[i] # "ws_disconnect_unexpected"]_vars

C11_Witness ==
    /\ returned.proc = Reader
    /\ returned.res = "ok"
    /\ returned.made >= 1
    /\ pc[Reader] = "recv"
    /\ web_socket_client = "open"

\* process p is inside _connect
InConnect(p) == pc[p] \in {"try", "sleep", "replay"}

\* C12: at most one process is inside _connect at any time, and it holds the
\* connect lock; a process that obtains the lock when the session is
\* connected returns without a handshake of its own.
C12_OneConnectAtATime ==
    /\ [](\A p, q \in Procs :
             /\ (InConnect(p) /\ InConnect(q)) => p = q
             /\ InConnect(p) => lock_holder = p)
    /\ [][\A p \in Procs :
             (pc[p] = "lock" /\ pc'[p] \notin {"lock", "done"} /\ web_socket_client = "open") =>
                 /\ returned'.proc = p /\ returned'.res = "ok"
                 /\ ~HandshakeStarts]_vars

C12_Witness ==
    \E p, q \in Procs : p # q /\ pc[p] = "try" /\ pc[q] = "lock" /\ lock_holder = p

(***************************************************************************)
(* Properties of the event target and of the waiting calls.                *)
(***************************************************************************)
\* C13: when the timeout of wait_for_update elapses before a matching event
\* is dispatched, the call returns None and raises nothing.
C13_TimeoutReturnsNone ==
    [][\A w \in Tasks :
          (wpc[w] = "wait" /\ wcall[w].timeout /\ future[w].state = "pending"
              /\ wpc'[w] = "idle") =>
                 wreturned'.res = "None"]_vars

\* task w waits in wait_for_update for the op and the guild id of this event
WaitsFor(w, event) ==
    /\ wpc[w] = "wait"
    /\ future[w].state = "pending"
    /\ \E i \in DOMAIN one_time_listeners["msg_receive"] :
          LET l == one_time_listeners["msg_receive"][i]
          IN  l.owner = w /\ ~l.cancelled /\ l.op = event.op /\ l.guild_id = event.guild

\* C14: a wait_for_update(op, guild_id=g) completes with the first
\* MsgReceiveEvent this client dispatches whose op is op and whose data
\* belongs to guild g.
C14_MatchingEventCompletes ==
    [][\A w \in Tasks :
          (dispatched'.name = "msg_receive" /\ dispatched'.client = "self"
              /\ WaitsFor(w, dispatched')) =>
                 future'[w] = [state |-> "result", event |-> dispatched']]_vars

\* C15: the reply to the request of a ping is never missed: when it is
\* dispatched, the listener of that ping is registered and takes it.
C15_ReplyNeverMissed ==
    \A w \in Tasks : replied[w] => future[w].state = "result"

(***************************************************************************)
(* Properties of the web socket pool.                                      *)
(***************************************************************************)

\* a task's call of assign_client or send for guild g begins in this step
PoolCalls(g) == \E p \in Tasks, o \in {"assign_client", "send"} : PoolCall(p, o, g)

\* C16: on a pool with zero member clients, send (and the assign_client call it makes)
\* fails with PoolEmptyError and with no other kind of error, and creates no guild
\* mapping.
C16_EmptyPoolError ==
    [][\A g \in Guilds :
          (PoolCalls(g) /\ clients = {})
              => /\ preturned'.res = "PoolEmptyError"
                 /\ guild_clients' = guild_clients]_vars

\* C17: in every reachable state of the pool, under any interleaving of add_client,
\* remove_client, pull_client, assign_client, get_client and send, every guild id
\* present in the guild-to-client mapping maps to a client that is a member of the pool.
C17_MappedClientsAreMembers ==
    \A g \in DOMAIN guild_clients : guild_clients[g] \in clients

\* g is mapped to a member of the pool that is not closed
HasOpenClient(g) ==
    /\ g \in DOMAIN guild_clients
    /\ guild_clients[g] \in clients
    /\ ~client_closed[guild_clients[g]]

\* C18: assign_client is idempotent: when guild g already has a mapping to a non-closed
\* member, assign_client(g) returns that same client and leaves both mappings
\* unchanged; and after assign_client(g) returns client c, get_client(g) is c and
\* get_guild_ids(c) contains g.
C18_AssignIdempotent ==
    /\ [][\A p \in Tasks, g \in Guilds :
             (PoolCall(p, "assign_client", g) /\ HasOpenClient(g))
                 => /\ preturned'.res = "ok"
                    /\ preturned'.value = guild_clients[g]
                    /\ guild_clients' = guild_clients
                    /\ client_guilds' = client_guilds]_vars
    /\ []((preturned.op = "assign_client" /\ preturned.res = "ok")
             => /\ get_client(PoolCur, preturned.guild).result = preturned.value
                /\ preturned.guild \in get_guild_ids(PoolCur, preturned.value))

\* C19: after pull_client(c) completes on a pool with at least two members, c is no
\* longer a member and every guild that was assigned to c is assigned to a remaining
\* member different from c: get_client(g) is that member and its guild ids contain g.
\* (A pull_client that had guilds to move completes only if a member remained: with
\* none, its assign_client tasks raise.)
C19_PullReassignsGuilds ==
    [][\A p \in Tasks :
          LoadReturns(p)
              => /\ pcall[p].client \notin clients'
                 /\ \A g \in DOMAIN assigning[p] :
                       LET m == get_client(PoolCur, g).result IN
                       /\ m \in clients \ {pcall[p].client}
                       /\ g \in get_guild_ids(PoolCur, m)]_vars

\* C20: once guild g is assigned to client c, the mapping of g changes only when c is
\* removed from the pool; while c stays a member, every assign_client(g) and send for
\* g, in any interleaving, resolves to c.
C20_MappingStable ==
    [][\A g \in Guilds :
          (g \in DOMAIN guild_clients /\ guild_clients[g] \in clients
                                      /\ guild_clients[g] \in clients')
              => /\ g \in DOMAIN guild_clients'
                 /\ guild_clients'[g] = guild_clients[g]
                 /\ (preturned'.op \in {"assign_client", "send"} /\ preturned'.guild = g
                                                               /\ preturned'.res = "ok")
                        => preturned'.value = guild_clients[g]]_vars

\* C24: get_client(g) never returns a closed client: if the client mapped to g is
\* closed at lookup time the result is None and g is unassigned afterwards; if g has
\* no mapping the result is None and the pool is unchanged.
C24_LookupDropsClosed ==
    [][\A g \in Guilds :
          GetClient(g)
              => /\ preturned'.res = "ok"
                 /\ preturned'.value # None => ~client_closed[preturned'.value]
                 /\ (g \in DOMAIN guild_clients /\ client_closed[guild_clients[g]])
                        => /\ preturned'.value = None
                           /\ g \notin DOMAIN guild_clients'
                 /\ g \notin DOMAIN guild_clients
                        => /\ preturned'.value = None
                           /\ UNCHANGED <<clients, guild_clients, client_guilds>>]_vars

\* C28: a received frame that is malformed JSON, is not a JSON object, has no op, has
\* an unrecognized op, or cannot be built into its model is dropped without
\* terminating the receive loop and without raising to any caller: the loop waits for
\* the next frame, no message event is dispatched for the frame, and the session is
\* otherwise as before.
C28_MalformedFrameDropped ==
    [][\A f \in RawFrames \ Frames :
          ReaderReceives(f)
              => /\ pc'[Reader] = "recv"
                 /\ returned' = NoReturn
                 /\ \A i \in DOMAIN emit' : emit'[i] = "raw_msg_receive"
                 /\ UNCHANGED <<web_socket_client, closed, last_connection_id,
                                message_queue>>]_vars

\* C29: the HTTP pool hands out clients round-robin: with an unchanged membership of n
\* non-closed clients, any n consecutive get_next_client calls return each member
\* exactly once; a client just added with add_client is the one returned by the next
\* get_next_client call; and get_current_client returns the client most recently
\* returned by get_next_client without advancing the rotation.
C29_RoundRobin ==
    /\ []((/\ http_clients # <<>>
           /\ Len(http_rotation) = Len(http_clients)
           /\ \A c \in Range(http_clients) : ~http_closed[c])
              => Range(http_rotation) = Range(http_clients))
    /\ [][/\ (HttpGetNextClient /\ http_added # None /\ ~http_closed[http_added])
               => http_returned'.value = http_added
          /\ (HttpGetCurrentClient /\ http_last # None)
               => /\ http_returned'.value = http_last
                  /\ http_clients' = http_clients]_vars

\* three get_next_client calls on three members returned each of them, and
\* get_current_client then returned the third
C29_Witness ==
    /\ Len(http_clients) = 3
    /\ Len(http_rotation) = 3
    /\ Cardinality(Range(http_rotation)) = 3
    /\ http_returned.op = "get_current_client"
    /\ http_returned.value = http_rotation[3]

\* the requests started on client c by the running request that raised an error
\* other than HTTPError
OwnFailures(c) ==
    Cardinality({f \in http_req.running_fs : f.client = c /\ f.state = "error"})

\* C30: in HTTPPoolBase.request, a penalty is added to a client exactly when a request
\* started on that client raised an unexpected (non-HTTPError) error, once per such
\* failure; a client whose own requests did not fail never receives a penalty, and a
\* client is removed from the pool only when its own penalties exceed max_penalties.
C30_PenaltyOnlyForOwnFailure ==
    \A c \in HttpClients : http_penalised[c] <= OwnFailures(c)

\* the penalties of client c that have not expired at the time now
Unexpired(c, now) ==
    IF c \in DOMAIN http_penalties
    THEN {k \in DOMAIN http_penalties[c] : http_penalties[c][k] >= now - PenaltyTimeFrame}
    ELSE {}

\* C31: a penalty older than penalty_time_frame no longer counts toward a client's
\* total: when a new penalty is added, every penalty with a timestamp earlier than
\* (now - penalty_time_frame) is discarded before the count is compared with
\* max_penalties, including when all previously recorded penalties have expired.
C31_ExpiredPenaltiesDiscarded ==
    [][\A f \in http_req.running_fs :
          (HttpWaitReturns(f) /\ f.state = "error")
              => LET c == PenalisedClient(http_req, f)
                     s == add_penalty(HttpCur, c, http_now)
                 IN  /\ c \in DOMAIN s.penalties
                        => \A k \in DOMAIN s.penalties[c] :
                               s.penalties[c][k] >= http_now - PenaltyTimeFrame
                     /\ (c \in Range(http_clients) /\ c \notin Range(s.clients))
                        => Cardinality(Unexpired(c, http_now)) + 1 > MaxPenalties]_vars

\* C32: HTTPPoolBase.request surfaces a remote application error (HTTPError) raised by
\* a client to the caller as that typed error, without adding a penalty and without
\* starting the request on another client, and it raises PoolEmptyError when no
\* non-closed client is available.
C32_HttpErrorSurfaces ==
    [][/\ \A f \in http_req.running_fs :
             (/\ HttpWaitReturns(f)
              /\ \E h \in http_req.running_fs : h.state = "HTTPError")
                 => /\ http_returned'.op = "request"
                    /\ http_returned'.res = "HTTPError"
                    /\ http_req'.running_fs = http_req.running_fs
                    /\ UNCHANGED <<http_clients, http_penalties, http_penalised>>
       /\ (HttpRequest /\ \A c \in Range(http_clients) : http_closed[c])
             => http_returned'.res = "PoolEmptyError"]_vars

\* the read loop is inside the connect() of its automatic reconnect
ReaderReconnecting == op[Reader] = "connect" /\ pc[Reader] \in {"lock", "try", "sleep", "replay"}

\* C33: from the moment disconnect() has cancelled the read loop, whether the
\* loop waits in recv or is inside its automatic reconnect, the loop's only
\* step is to terminate: it dispatches no ws_disconnect with deliberate = false,
\* starts no connect(), makes no handshake and returns from no connect().
C33_CancelEndsLoopQuietly ==
    [][cancel_requested =>
          /\ \A i \in DOMAIN emit' : emit'[i] # "ws_disconnect_unexpected"
          /\ \/ pc'[Reader] \in {pc[Reader], "done"}
             \/ pc[Reader] = "recv" /\ pc'[Reader] = "recv_old"
          /\ made'[Reader] \in {made[Reader], 0}
          /\ op'[Reader] \in {op[Reader], "none"}
          /\ returned'.proc = Reader => returned' = returned
          /\ pc'[Reader] = "done" => (~cancel_requested' /\ lock_holder' # Reader)]_vars

C33_Witness ==
    /\ cancel_requested
    /\ ReaderReconnecting
    /\ pc[Reader] \in {"try", "sleep"}
    /\ \E t \in Tasks : op[t] \in {"disconnect", "close"} \/ returned.op \in {"disconnect", "close"}

\* the events of receiving that a step dispatched
ReceiveEvents == {"raw_msg_receive", "msg_receive", "player_update"}

\* the positions of event e among the events a step dispatched
Positions(seq, e) == {i \in DOMAIN seq : seq[i] = e}

\* C34: the read loop dispatches the events of a frame in the step that read it,
\* so in the order of the reads: a frame that is a JSON object gets exactly one
\* raw_msg_receive, dispatched first; a frame the codec classifies gets its
\* msg_receive once, right after its raw_msg_receive; text that is no JSON object
\* gets no event; and no step other than a read dispatches an event of receiving.
C34_ReceiveEventsInReadOrder ==
    [][/\ \A f \in RawFrames :
             ReaderReceives(f) =>
                 IF f.op \in {"malformed-json", "not-object"}
                 THEN emit' = <<>>
                 ELSE /\ Positions(emit', "raw_msg_receive") = {1}
                      /\ Positions(emit', "msg_receive") \subseteq {2}
                      /\ f \in Frames => Positions(emit', "msg_receive") = {2}
                      /\ \A i \in DOMAIN emit' : emit'[i] \in ReceiveEvents
       /\ (\E i \in DOMAIN emit' : emit'[i] \in ReceiveEvents)
             => \E f \in RawFrames : ReaderReceives(f)]_vars

C34_Witness ==
    /\ emit = <<"raw_msg_receive", "msg_receive", "player_update">>
    /\ pc[Reader] = "recv"
    /\ web_socket_client = "open"

\* the members of the HTTP pool that are not closed
OpenMembers == {c \in Range(http_clients) : ~http_closed[c]}

\* C35: get_next_client returns; what it returns is None or a member that is not
\* closed and is then the current client; it returns None exactly when no member
\* is open, and then the pool is left empty; the members it removed were all
\* closed, and no open member left the pool.
C35_NextClientNeverClosed ==
    [][HttpGetNextClient =>
          LET client == http_returned'.value IN
          /\ http_returned'.op = "get_next_client"
          /\ client # None =>
                /\ client \in OpenMembers
                /\ http_clients'[1] = client
          /\ client = None <=> OpenMembers = {}
          /\ client = None => http_clients' = <<>>
          /\ Range(http_clients) \ Range(http_clients') \subseteq
                {c \in HttpClients : http_closed[c]}
          /\ OpenMembers \subseteq Range(http_clients')
          /\ Range(http_clients') \subseteq Range(http_clients)]_vars

\* get_next_client returned the one open member of a pool whose other two
\* clients, closed, are out of the pool
C35_Witness ==
    /\ http_returned.op = "get_next_client"
    /\ http_returned.value \in HttpClients
    /\ http_clients = <<http_returned.value>>
    /\ Cardinality({c \in HttpClients : http_closed[c]}) = 2
    /\ http_calls = 6

\* AndesiteState.get(g).get_track(): the track stored for guild g
StoredTrack(ps, g) == IF g \in DOMAIN ps THEN ps[g].track ELSE None

\* the positions of the handled events that start or stop the track of guild g
TrackChanges(g) ==
    {i \in DOMAIN handled :
        handled[i].guild_id = g /\ handled[i].type \in TrackStopTypes \cup {"TrackStartEvent"}}

\* C36: the track stored for guild g is the track of the last TrackStartEvent
\* handled for g when no TrackEndEvent, TrackExceptionEvent or TrackStuckEvent for
\* g was handled after it, and None otherwise; an event of another type changes
\* no state, and an event for g leaves the state of every other guild as it was.
C36_TrackFollowsEvents ==
    /\ [](\A g \in Guilds :
             LET changes == TrackChanges(g) IN
             StoredTrack(player_states, g) =
                 IF changes = {} THEN None
                 ELSE LET last == CHOOSE i \in changes : \A j \in changes : j <= i
                      IN  IF handled[last].type = "TrackStartEvent"
                          THEN handled[last].track
                          ELSE None)
    /\ [][\A event \in AndesiteEvents :
             handled' = Append(handled, event) =>
                 /\ event.type \notin TrackStopTypes \cup {"TrackStartEvent"}
                       => /\ DOMAIN player_states' = DOMAIN player_states
                          /\ \A g \in DOMAIN player_states :
                                player_states'[g] = player_states[g]
                 /\ \A h \in Guilds \ {event.guild_id} :
                       /\ h \in DOMAIN player_states' <=> h \in DOMAIN player_states
                       /\ h \in DOMAIN player_states => player_states'[h] = player_states[h]]_vars

\* guild 1 started a track that then got stuck, guild 2 started one that plays
C36_Witness ==
    /\ Len(handled) = 3
    /\ handled[1].type = "TrackStartEvent" /\ handled[1].guild_id = 1
    /\ handled[2].type = "TrackStartEvent" /\ handled[2].guild_id = 2
    /\ handled[3].type = "TrackStuckEvent" /\ handled[3].guild_id = 1
    /\ StoredTrack(player_states, 1) = None
    /\ StoredTrack(player_states, 2) = handled[2].track

\* C37: a message leaves the queue only by being written to the transport: a
\* message that is queued before a step and not after it is on the wire after it,
\* also when the connection fails while the queue is replayed.
C37_QueuedUntilWritten ==
    [][\A i \in DOMAIN message_queue :
          (\A j \in DOMAIN message_queue' : message_queue'[j] # message_queue[i])
              => message_queue[i] \in wire']_vars

\* C38: the two mappings of the pool agree in every reachable state: guild g is in
\* the guild set of client c exactly when the guild-to-client mapping sends g to
\* c, so no guild is in the guild sets of two clients; and the client an
\* assign_client or send call got back is the one the mapping records.
C38_MappingsAgree ==
    /\ \A c \in PoolClients, g \in Guilds :
          (c \in DOMAIN client_guilds /\ g \in client_guilds[c])
              <=> (g \in DOMAIN guild_clients /\ guild_clients[g] = c)
    /\ (preturned.op \in {"assign_client", "send"} /\ preturned.res = "ok"
            /\ preturned.guild \in DOMAIN guild_clients)
          => guild_clients[preturned.guild] = preturned.value

\* C39: when the last call that returned is a connect() that succeeded and no call
\* is under way (so no disconnect() or close() was called after it), the read loop
\* task of the session is running. (The session has one read loop task at most:
\* _start_read_loop creates one only when the previous one is done.)
C39_ReadLoopAfterConnect ==
    (/\ returned.op = "connect"
     /\ returned.res = "ok"
     /\ returned.proc \in Tasks
     /\ \A t \in Tasks : pc[t] = "idle")
        => ReadLoopRunning(Cur)

\* task t is inside a connect() call it made itself
Connecting(t) == op[t] = "connect" /\ pc[t] \in {"lock", "try", "sleep", "replay"}

\* C40: with no maximum of attempts, a node that accepts a handshake in the end
\* and a connection that from some time on is not dropped any more, every
\* connect() call under way completes with the session connected and the queue
\* empty, and every message that send() put into the queue is written to the
\* transport in the end.
C40_ConnectAndQueueProgress ==
    <>[][~ConnectionDrops]_vars
        => /\ \A t \in Tasks :
                 Connecting(t) ~> (/\ returned.proc = t
                                   /\ returned.res = "ok"
                                   /\ web_socket_client = "open"
                                   /\ message_queue = <<>>)
           /\ \A m \in 1..MaxMsgs :
                 (\E i \in DOMAIN message_queue : message_queue[i] = m) ~> (m \in wire)

\* C25: an add_client call that fails with ValueError (the client is already a member,
\* or the client has a state different from the pool's state) leaves the pool
\* unchanged: the member set, both guild mappings and the event wiring are the same as
\* before the call.
C25_FailedAddChangesNothing ==
    [][\A c \in PoolClients :
          (AddClient(c) /\ add_client(PoolCur, c).raised = "ValueError")
              => UNCHANGED <<clients, guild_clients, client_guilds, children>>]_vars

\* the guilds mapped to client c
MappedTo(c) == {g \in DOMAIN guild_clients : guild_clients[g] = c}

\* C26: remove_client(c) on a non-member raises ValueError and changes nothing; on a
\* member it removes c from the member set and unassigns exactly the guilds that were
\* mapped to c, leaving the mappings of all guilds assigned to other clients unchanged,
\* and performs no re-assignment of the removed guilds.
C26_RemoveUnassignsOwnGuilds ==
    [][\A c \in PoolClients :
          RemoveClient(c)
              => IF c \notin clients
                 THEN /\ remove_client(PoolCur, c).raised = "ValueError"
                      /\ UNCHANGED <<clients, guild_clients, client_guilds, stateVars>>
                 ELSE /\ remove_client(PoolCur, c).raised = "none"
                      /\ clients' = clients \ {c}
                      /\ DOMAIN guild_clients' = DOMAIN guild_clients \ MappedTo(c)
                      /\ \A g \in DOMAIN guild_clients' : guild_clients'[g] = guild_clients[g]
                      /\ c \notin DOMAIN client_guilds'
                      /\ \A d \in clients' : client_guilds'[d] = client_guilds[d]]_vars

\* C27: pull_client replays player state onto the new clients only if player-state
\* replay is enabled: on a pool whose state handling is disabled, pull_client of a
\* client that owns guilds completes the removal and re-assignment without replay and
\* without raising.
C27_PullWithoutStateCompletes ==
    [][\A p \in Tasks :
          (LoadReturns(p) /\ pool_state = None)
              => /\ assigning[p] # <<>>
                 /\ pcall[p].client \notin clients
                 /\ \A g \in DOMAIN assigning[p] : g \in DOMAIN guild_clients
                 /\ preturned'.res = "ok"]_vars

\* the score of a member as the scoring function computes it in this state
MemberScore(c) == default_scoring_function(c, Cardinality(get_guild_ids(PoolCur, c)))

\* the members whose score no other member exceeds
MaximalMembers ==
    {c \in clients : \A d \in clients : ~ScoreLess(MemberScore(c), MemberScore(d))}

\* task p runs an assign_client or send that found no client for its guild
AssignsFresh(p) == pcall[p].op \in {"assign_client", "send"}

C22_NeverAssignsClosed ==
    [][\A p \in Tasks :
          (Resume(p) /\ AssignsFresh(p))
              => /\ pcall[p].guild \in DOMAIN guild_clients'
                 /\ ~client_closed[guild_clients'[pcall[p].guild]]]_vars

(***************************************************************************)
(* Properties of the default scoring function.                             *)
(***************************************************************************)

\* the connectivity of a candidate: 1 connected, 0 disconnected, -1 closed
Connectivity(data) ==
    IF data.closed THEN -1 ELSE IF data.connected = "no" THEN 0 ELSE 1

\* the region score of a candidate: the comparator's, or the neutral 0 without one
RegionScore(data) == IF data.has_comparator THEN data.region ELSE 0

\* candidate i outranks candidate j
Outranks(i, j) == ScoreLess(score_result[j], score_result[i])

Evaluated == score_result # <<>>

====
